---- MODULE Spec2Model ----
(***************************************************************************)
(* Verification core of the selene beacon-chain light client               *)
(* (consensus/consensus.go and consensus/consensus_core/utils.go, both in  *)
(* src/consensus/consensus_core/utils.go).                                 *)
(*                                                                         *)
(* State: the Inner object (Store, lastCheckpoint) plus the position of    *)
(* the running driver method and a record of the last update handled.      *)
(* Spec        the driver: sync (stepwise, one RPC result per step) and    *)
(*             advance, as methods of Inner.                               *)
(* SpecVerify  the verifier as a pure function of (Store, update, clock).  *)
(* SpecPayload send_blocks with its payload checks, in the loop of New.     *)
(* SpecClient  the goroutine of ConsensusClient.New, the senders started   *)
(*             by send_blocks, the receives of New, and Shutdown.          *)
(* SpecDomain  ComputeDomain as a pure function.                           *)
(***************************************************************************)
EXTENDS Integers, Sequences, FiniteSets, TLC

VARIABLES
    Store,          \* Inner.Store : LightClientStore
    lastCheckpoint, \* Inner.lastCheckpoint : *[]byte
    now,            \* expected_current_slot(): the wall clock, in slots
    pc,             \* position of the driver
    remaining,      \* updates of the fetched list not yet handled by sync
    boot,           \* what the last bootstrap(checkpoint) call saw
    upd,            \* the GenericUpdate handled by the last step
    kind,           \* which wrapper built upd: "update", "finality", "optimistic"
    err,            \* result of verify_* in the last step
    applied,        \* apply_* was called in the last step
    pre,            \* Store and lastCheckpoint before the last step
    fetches,        \* update RPCs issued by the running sync call
    config,         \* Inner.Config: LoadExternalFallback, Fallback
    driver,         \* position of the goroutine started by ConsensusClient.New
    syncs,          \* the checkpoint sources inner.sync was tried with, in order
    sends,          \* send_blocks calls made so far
    senders,        \* goroutines started by send_blocks that have not yet sent
    blockSend,      \* the buffer of the channel blockSend
    received,       \* what ConsensusClient.New received from the three channels
    stopped,        \* Shutdown was called
    saved,          \* the checkpoint held by the database
    sent,           \* what the last send_blocks call fetched and did
    domainCall,     \* a call of ComputeDomain: its arguments and its result
    proofCall,      \* a call of isProofValid: its arguments and its result
    backfill        \* a call of get_payloads: its loop, workers, channels and result

clientVars == <<config, driver, syncs, sends, senders, blockSend, received,
                stopped, saved, sent, domainCall, proofCall, backfill>>

vars == <<Store, lastCheckpoint, now, pc, remaining, boot, upd, kind,
          err, applied, pre, fetches, config, driver, syncs, sends, senders,
          blockSend, received, stopped, saved, sent, domainCall, proofCall, backfill>>

(***************************************************************************)
(* Bounds of the model.                                                    *)
(***************************************************************************)
\* sync periods 0..MaxPeriod supply the slots of headers and signatures
MaxPeriod == 1
\* length of the update list one GetUpdates call returns (the code asks for 128)
MaxUpdates == 2
\* send_blocks calls the goroutine of ConsensusClient.New makes
MaxSends == 2

(***************************************************************************)
(* Primitives.  A root is a sequence of integers.  Sha256 and the SSZ      *)
(* tree-hash roots are modelled as injective encodings with disjoint       *)
(* leading tags, so that two roots are equal exactly when they were        *)
(* computed from the same data.                                            *)
(***************************************************************************)
ZeroRoot == <<0>>

Sha256(data) == <<1>> \o data

\* hasher.Write(a); hasher.Write(b): the bytes of a followed by those of b
Concat(a, b) == <<Len(a)>> \o a \o b

Min(a, b) == IF a < b THEN a ELSE b

Max(a, b) == IF a > b THEN a ELSE b

\* a Go pointer or slice that may be nil: nil, or a value
NilSlice == [nil |-> TRUE, val |-> <<>>]

NilCommittee == [nil |-> TRUE, val |-> 0]

Ptr(v) == [nil |-> FALSE, val |-> v]

\* &x != nil, where x is a variable or a field: the address of a variable is
\* never nil
AddressNotNil == TRUE

\* consensus_core.Header (proposer_index and parent_root play no part)
ZeroHeader == [Slot |-> 0, State_root |-> ZeroRoot, Body_root |-> ZeroRoot]

HeaderTreeHashRoot(h) == <<2, h.Slot>> \o Concat(h.State_root, h.Body_root)

\* a SyncComittee value is named by a number; 0 is the zero value
ZeroCommittee == 0

CommitteeTreeHashRoot(c) == <<3, c>>

\* getBits: a bitfield is modelled by the number of its set bits (the lowest
\* n bits set)
getBits(bitfield) == bitfield

calculate_sync_period(slot) == slot \div 8192

(***************************************************************************)
(* consensus_core: fork schedule, domain and signing root.                 *)
(***************************************************************************)
\* config.Forks as configured for the modelled network
Forks == [Genesis   |-> [Epoch |-> 0,   ForkVersion |-> <<0, 0, 0, 0>>],
          Altair    |-> [Epoch |-> 0,   ForkVersion |-> <<1, 0, 0, 0>>],
          Bellatrix |-> [Epoch |-> 1,   ForkVersion |-> <<2, 0, 0, 0>>],
          Capella   |-> [Epoch |-> 255, ForkVersion |-> <<3, 0, 0, 0>>],
          Deneb     |-> [Epoch |-> 256, ForkVersion |-> <<4, 0, 0, 0>>]]

\* Config.Chain.GenesisRoot
GenesisRoot == [i \in 1..32 |-> IF i = 32 THEN 9 ELSE 0]

CalculateForkVersion(forks, slot) ==
    LET epoch == slot \div 32 IN
    IF epoch >= forks.Deneb.Epoch THEN forks.Deneb.ForkVersion
    ELSE IF epoch >= forks.Capella.Epoch THEN forks.Capella.ForkVersion
    ELSE IF epoch >= forks.Bellatrix.Epoch THEN forks.Bellatrix.ForkVersion
    ELSE IF epoch >= forks.Altair.Epoch THEN forks.Altair.ForkVersion
    ELSE forks.Genesis.ForkVersion

\* ForkData.TreeHashRoot(): 32 bytes that determine (version, genesis root)
ComputeForkDataRoot(currentVersion, genesisValidatorRoot) ==
    [i \in 1..32 |-> IF i = 1 THEN 4
                     ELSE IF i <= 5 THEN currentVersion[i - 1]
                     ELSE IF i = 6 THEN genesisValidatorRoot[32]
                     ELSE 0]

ComputeDomain(domainType, forkDataRoot) ==
    Sha256(domainType \o SubSeq(forkDataRoot, 1, 28))

\* SigningData.TreeHashRoot()
ComputeSigningRoot(objectRoot, domain) == <<5>> \o Concat(objectRoot, domain)

ComputeCommitteeSignRoot(header, forkDataRoot) ==
    LET domainType == <<7, 0, 0, 0>>
        domain == ComputeDomain(domainType, forkDataRoot)
    IN ComputeSigningRoot(header, domain)

\* len(committee.pubkeys): the zero value has none, a committee of the chain 512
PubkeyCount(c) == IF c = ZeroCommittee THEN 0 ELSE 512

\* The keys of the committee members whose bit is set; nil committee: the
\* dereference panics, modelled by the key set of no committee (-1).
GetParticipatingKeys(committee, bitfield) ==
    IF committee.nil THEN [committee |-> -1, n |-> 0]
    ELSE [committee |-> committee.val, n |-> Min(bitfield, PubkeyCount(committee.val))]

\* SignatureBytes.Verify: an aggregate signature is valid for exactly the
\* message and the key set it was made with, and never for an empty key set
SignatureVerify(signature, msg, pks) ==
    /\ pks.n > 0
    /\ signature.msg = msg
    /\ signature.pks = pks

verify_sync_committee_signature(pks, attestedHeader, signature, forkDataRoot) ==
    LET headerRoot == HeaderTreeHashRoot(attestedHeader)
        signingRoot == ComputeCommitteeSignRoot(headerRoot, forkDataRoot)
    IN SignatureVerify(signature, signingRoot, pks)

(***************************************************************************)
(* Merkle proofs.                                                          *)
(***************************************************************************)
RECURSIVE Pow2(_)
Pow2(i) == IF i = 0 THEN 1 ELSE 2 * Pow2(i - 1)

\* the loop of isProofValid from position i (1-based) of the branch
RECURSIVE deriveRoot(_, _, _, _)
deriveRoot(derivedRoot, branch, index, i) ==
    IF i > Len(branch) THEN derivedRoot
    ELSE LET node == branch[i]
             written == IF (index \div Pow2(i - 1)) % 2 # 0
                        THEN Concat(node, derivedRoot)
                        ELSE Concat(derivedRoot, node)
         IN deriveRoot(Sha256(Sha256(written)), branch, index, i + 1)

isProofValid(attestedHeader, leafRoot, branch, depth, index) ==
    IF Len(branch) # depth THEN FALSE
    ELSE deriveRoot(leafRoot, branch, index, 1) = attestedHeader.State_root

isFinalityProofValid(attestedHeader, finalizedHeader, finalityBranch) ==
    isProofValid(attestedHeader, HeaderTreeHashRoot(finalizedHeader), finalityBranch, 6, 41)

isCurrentCommitteeProofValid(attestedHeader, currentCommittee, currentCommitteeBranch) ==
    isProofValid(attestedHeader, CommitteeTreeHashRoot(currentCommittee), currentCommitteeBranch, 5, 22)

\* a faulty variant of the one below: every branch is taken for a proof
isNextCommitteeProofValid_wrong(attestedHeader, currentCommittee, currentCommitteeBranch) ==
    TRUE

isNextCommitteeProofValid(attestedHeader, currentCommittee, currentCommitteeBranch) ==
    isProofValid(attestedHeader, CommitteeTreeHashRoot(currentCommittee), currentCommitteeBranch, 5, 23)

(***************************************************************************)
(* The verifier.                                                           *)
(***************************************************************************)
\* a faulty signature step: it always checks against the current committee
verify_signature_step_wrong(update, store, updateSigPeriod, storePeriod) ==
    IF ~verify_sync_committee_signature(
            GetParticipatingKeys(Ptr(store.CurrentSyncCommitee),
                                 update.SyncAggregate.Sync_committee_bits),
            update.AttestedHeader, update.SyncAggregate.Sync_committee_signature,
            ComputeForkDataRoot(CalculateForkVersion(Forks, update.SignatureSlot), GenesisRoot))
    THEN "ErrInvalidSignature"
    ELSE "nil"

\* the signature step of verify_generic_update (it reads in.Store, which is
\* the store every caller passes)
verify_signature_step(update, store, updateSigPeriod, storePeriod) ==
    LET syncCommittee == IF updateSigPeriod = storePeriod
                         THEN Ptr(store.CurrentSyncCommitee)
                         ELSE store.NextSyncCommitee
        pks == GetParticipatingKeys(syncCommittee, update.SyncAggregate.Sync_committee_bits)
        forkVersion == CalculateForkVersion(Forks, update.SignatureSlot)
        forkDataRoot == ComputeForkDataRoot(forkVersion, GenesisRoot)
    IN IF syncCommittee.nil THEN "panic"
       ELSE IF ~verify_sync_committee_signature(pks, update.AttestedHeader,
                   update.SyncAggregate.Sync_committee_signature, forkDataRoot)
       THEN "ErrInvalidSignature"
       ELSE "nil"

\* a faulty validTime: it admits a signature made in the attested slot
validTimeWrong(update, expectedCurrentSlot) ==
    /\ expectedCurrentSlot >= update.SignatureSlot
    /\ update.SignatureSlot >= update.AttestedHeader.Slot
    /\ update.AttestedHeader.Slot >= update.FinalizedHeader.Slot

\* a faulty validTime: it admits a finalized header later than the attested one
validTimeUnordered(update, expectedCurrentSlot) ==
    /\ expectedCurrentSlot >= update.SignatureSlot
    /\ update.SignatureSlot > update.AttestedHeader.Slot

\* validTime of verify_generic_update
validTime(update, expectedCurrentSlot) ==
    LET updateFinalizedSlot == update.FinalizedHeader.Slot
    IN /\ expectedCurrentSlot >= update.SignatureSlot
       /\ update.SignatureSlot > update.AttestedHeader.Slot
       /\ update.AttestedHeader.Slot >= updateFinalizedSlot

\* a faulty validPeriod: with a next committee it admits any later period
validPeriodWrong(update, store) ==
    LET storePeriod == calculate_sync_period(store.FinalizedHeader.Slot)
        updateSigPeriod == calculate_sync_period(update.SignatureSlot)
    IN IF ~store.NextSyncCommitee.nil
       THEN updateSigPeriod >= storePeriod
       ELSE updateSigPeriod = storePeriod

\* validPeriod of verify_generic_update
validPeriod(update, store) ==
    LET storePeriod == calculate_sync_period(store.FinalizedHeader.Slot)
        updateSigPeriod == calculate_sync_period(update.SignatureSlot)
    IN IF ~store.NextSyncCommitee.nil
       THEN updateSigPeriod = storePeriod \/ updateSigPeriod = storePeriod + 1
       ELSE updateSigPeriod = storePeriod

verify_generic_update(update, expectedCurrentSlot, store) ==
    LET bits == getBits(update.SyncAggregate.Sync_committee_bits)
        storePeriod == calculate_sync_period(store.FinalizedHeader.Slot)
        updateSigPeriod == calculate_sync_period(update.SignatureSlot)
        updateAttestedPeriod == calculate_sync_period(update.AttestedHeader.Slot)
        updateHasNextCommittee == /\ store.NextSyncCommitee.nil
                                  /\ AddressNotNil
                                  /\ updateAttestedPeriod = storePeriod
    IN IF bits = 0 THEN "ErrInsufficientParticipation"
       ELSE IF ~validTime(update, expectedCurrentSlot) THEN "ErrInvalidTimestamp"
       ELSE IF ~validPeriod(update, store) THEN "ErrInvalidPeriod"
       ELSE IF update.AttestedHeader.Slot <= store.FinalizedHeader.Slot /\ ~updateHasNextCommittee
       THEN "ErrNotRelevant"
       ELSE IF /\ AddressNotNil /\ ~update.FinalityBranch.nil
               /\ ~isFinalityProofValid(update.AttestedHeader, update.FinalizedHeader,
                                        update.FinalityBranch.val)
       THEN "ErrInvalidFinalityProof"
       ELSE IF ~(AddressNotNil /\ ~update.FinalityBranch.nil) /\ AddressNotNil
       THEN "ErrInvalidFinalityProof"
       ELSE IF /\ AddressNotNil /\ ~update.NextSyncCommitteeBranch.nil
               /\ ~isNextCommitteeProofValid(update.AttestedHeader, update.NextSyncCommittee.val,
                                             update.NextSyncCommitteeBranch.val.val)
       THEN "ErrInvalidNextSyncCommitteeProof"
       ELSE IF ~(AddressNotNil /\ ~update.NextSyncCommitteeBranch.nil) /\ AddressNotNil
       THEN "ErrInvalidNextSyncCommitteeProof"
       ELSE verify_signature_step(update, store, updateSigPeriod, storePeriod)

\* the GenericUpdate literal of verify_update and apply_update
GenericOfUpdate(update) ==
    [AttestedHeader          |-> update.AttestedHeader,
     SyncAggregate           |-> update.SyncAggregate,
     SignatureSlot           |-> update.SignatureSlot,
     NextSyncCommittee       |-> Ptr(update.NextSyncCommitee),
     NextSyncCommitteeBranch |-> Ptr(update.NextSyncCommiteeBranch),
     FinalizedHeader         |-> update.FinalizedHeader,
     FinalityBranch          |-> update.FinalityBranch]

\* the GenericUpdate literal of verify_finality_update and apply_finality_update
GenericOfFinalityUpdate(update) ==
    [AttestedHeader          |-> update.AttestedHeader,
     SyncAggregate           |-> update.SyncAggregate,
     SignatureSlot           |-> update.SignatureSlot,
     NextSyncCommittee       |-> NilCommittee,
     NextSyncCommitteeBranch |-> [nil |-> TRUE, val |-> NilSlice],
     FinalizedHeader         |-> update.FinalizedHeader,
     FinalityBranch          |-> update.FinalityBranch]

\* the GenericUpdate literal of verify_optimistic_update and apply_optimistic_update
GenericOfOptimisticUpdate(update) ==
    [AttestedHeader          |-> update.AttestedHeader,
     SyncAggregate           |-> update.SyncAggregate,
     SignatureSlot           |-> update.SignatureSlot,
     NextSyncCommittee       |-> NilCommittee,
     NextSyncCommitteeBranch |-> [nil |-> TRUE, val |-> NilSlice],
     FinalizedHeader         |-> ZeroHeader,
     FinalityBranch          |-> NilSlice]

verify_update(update, expectedCurrentSlot, store) ==
    verify_generic_update(GenericOfUpdate(update), expectedCurrentSlot, store)

verify_finality_update(update, expectedCurrentSlot, store) ==
    verify_generic_update(GenericOfFinalityUpdate(update), expectedCurrentSlot, store)

verify_optimistic_update(update, expectedCurrentSlot, store) ==
    verify_generic_update(GenericOfOptimisticUpdate(update), expectedCurrentSlot, store)

(***************************************************************************)
(* The applier.                                                            *)
(***************************************************************************)
has_finality_update(update) == AddressNotNil /\ ~update.FinalityBranch.nil

has_sync_update(update) == AddressNotNil /\ ~update.NextSyncCommitteeBranch.nil

\* a faulty threshold: the whole maximum instead of its half
safety_threshold_wrong(store) ==
    Max(store.CurrentMaxActiveParticipants, store.PreviousMaxActiveParticipants)

safety_threshold(store) ==
    Max(store.CurrentMaxActiveParticipants, store.PreviousMaxActiveParticipants) \div 2

\* a faulty committee logic: the rotation keeps the current committee
apply_committee_logic_wrong(store, update) ==
    IF store.NextSyncCommitee.nil
    THEN [store EXCEPT !.NextSyncCommitee = update.NextSyncCommittee]
    ELSE IF calculate_sync_period(update.FinalizedHeader.Slot)
                = calculate_sync_period(store.FinalizedHeader.Slot) + 1
    THEN [store EXCEPT !.NextSyncCommitee = update.NextSyncCommittee,
                       !.PreviousMaxActiveParticipants = store.CurrentMaxActiveParticipants,
                       !.CurrentMaxActiveParticipants = 0]
    ELSE store

\* apply_generic_update, "Sync committee update logic"
apply_committee_logic(store, update) ==
    IF store.NextSyncCommitee.nil
    THEN [store EXCEPT !.NextSyncCommitee = update.NextSyncCommittee]
    ELSE IF calculate_sync_period(update.FinalizedHeader.Slot)
                = calculate_sync_period(store.FinalizedHeader.Slot) + 1
    THEN [store EXCEPT !.CurrentSyncCommitee = store.NextSyncCommitee.val,
                       !.NextSyncCommitee = update.NextSyncCommittee,
                       !.PreviousMaxActiveParticipants = store.CurrentMaxActiveParticipants,
                       !.CurrentMaxActiveParticipants = 0]
    ELSE store

\* a faulty variant of the part below: every new finalized header is emitted
\* as a checkpoint
apply_finalized_header_wrong(store, update) ==
    IF update.FinalizedHeader.Slot > store.FinalizedHeader.Slot
    THEN [store |-> [store EXCEPT !.FinalizedHeader = update.FinalizedHeader,
                                  !.OptimisticHeader =
                                      IF update.FinalizedHeader.Slot > store.OptimisticHeader.Slot
                                      THEN update.FinalizedHeader
                                      ELSE store.OptimisticHeader],
          checkpoint |-> Ptr(HeaderTreeHashRoot(update.FinalizedHeader))]
    ELSE [store |-> store, checkpoint |-> NilSlice]

\* a faulty variant of the part below: an older finalized header is taken too
apply_finalized_header_unguarded(store, update) ==
    IF update.FinalizedHeader.Slot # store.FinalizedHeader.Slot
    THEN [store |-> [store EXCEPT !.FinalizedHeader = update.FinalizedHeader,
                                  !.OptimisticHeader =
                                      IF update.FinalizedHeader.Slot > store.OptimisticHeader.Slot
                                      THEN update.FinalizedHeader
                                      ELSE store.OptimisticHeader],
          checkpoint |-> IF update.FinalizedHeader.Slot % 32 = 0
                         THEN Ptr(HeaderTreeHashRoot(update.FinalizedHeader))
                         ELSE NilSlice]
    ELSE [store |-> store, checkpoint |-> NilSlice]

\* apply_generic_update, "Update finalized header": store is the Store the
\* committee logic left
apply_finalized_header(store, update) ==
    IF update.FinalizedHeader.Slot > store.FinalizedHeader.Slot
    THEN [store |-> [store EXCEPT !.FinalizedHeader = update.FinalizedHeader,
                                  !.OptimisticHeader =
                                      IF update.FinalizedHeader.Slot > store.OptimisticHeader.Slot
                                      THEN update.FinalizedHeader
                                      ELSE store.OptimisticHeader],
          checkpoint |-> IF update.FinalizedHeader.Slot % 32 = 0
                         THEN Ptr(HeaderTreeHashRoot(update.FinalizedHeader))
                         ELSE NilSlice]
    ELSE [store |-> store, checkpoint |-> NilSlice]

\* a faulty variant of the part below: it takes half of the committee for a
\* majority
apply_if_should_half(store, update) ==
    LET committeeBits == getBits(update.SyncAggregate.Sync_committee_bits)
        updateAttestedPeriod == calculate_sync_period(update.AttestedHeader.Slot)
        updateFinalizedSlot == update.FinalizedHeader.Slot
        updateFinalizedPeriod == calculate_sync_period(updateFinalizedSlot)
        updateHasFinalizedNextCommittee == /\ store.NextSyncCommitee.nil
                                           /\ has_sync_update(update)
                                           /\ has_finality_update(update)
                                           /\ updateFinalizedPeriod = updateAttestedPeriod
        hasMajority == committeeBits * 2 >= 512
        updateIsNewer == updateFinalizedSlot > store.FinalizedHeader.Slot
    IN IF hasMajority /\ (updateIsNewer \/ updateHasFinalizedNextCommittee)
       THEN apply_finalized_header(apply_committee_logic(store, update), update)
       ELSE [store |-> store, checkpoint |-> NilSlice]

\* a faulty variant of the part below: it does not ask for a majority
apply_if_should_wrong(store, update) ==
    LET updateAttestedPeriod == calculate_sync_period(update.AttestedHeader.Slot)
        updateFinalizedSlot == update.FinalizedHeader.Slot
        updateFinalizedPeriod == calculate_sync_period(updateFinalizedSlot)
        updateHasFinalizedNextCommittee == /\ store.NextSyncCommitee.nil
                                           /\ has_sync_update(update)
                                           /\ has_finality_update(update)
                                           /\ updateFinalizedPeriod = updateAttestedPeriod
        updateIsNewer == updateFinalizedSlot > store.FinalizedHeader.Slot
    IN IF updateIsNewer \/ updateHasFinalizedNextCommittee
       THEN apply_finalized_header(apply_committee_logic(store, update), update)
       ELSE [store |-> store, checkpoint |-> NilSlice]

\* apply_generic_update from "updateAttestedPeriod :=" on: store is the Store
\* after the optimistic header was settled.  updateFinalizedSlot is
\* update.FinalizedHeader.Slot, the test &update.FinalizedHeader != nil being
\* always true.
apply_if_should(store, update) ==
    LET committeeBits == getBits(update.SyncAggregate.Sync_committee_bits)
        updateAttestedPeriod == calculate_sync_period(update.AttestedHeader.Slot)
        updateFinalizedSlot == update.FinalizedHeader.Slot
        updateFinalizedPeriod == calculate_sync_period(updateFinalizedSlot)
        updateHasFinalizedNextCommittee == /\ store.NextSyncCommitee.nil
                                           /\ has_sync_update(update)
                                           /\ has_finality_update(update)
                                           /\ updateFinalizedPeriod = updateAttestedPeriod
        hasMajority == committeeBits * 3 >= 512 * 2
        updateIsNewer == updateFinalizedSlot > store.FinalizedHeader.Slot
        goodUpdate == updateIsNewer \/ updateHasFinalizedNextCommittee
        shouldApplyUpdate == hasMajority /\ goodUpdate
    IN IF shouldApplyUpdate
       THEN apply_finalized_header(apply_committee_logic(store, update), update)
       ELSE [store |-> store, checkpoint |-> NilSlice]

\* a faulty variant of the part below: the optimistic header is left alone
apply_optimistic_header_wrong(store, update) == store

\* apply_generic_update, "Determine if we should update the optimistic
\* header": store is the Store with the participant maximum raised
apply_optimistic_header(store, update) ==
    IF /\ getBits(update.SyncAggregate.Sync_committee_bits) > safety_threshold(store)
       /\ update.AttestedHeader.Slot > store.OptimisticHeader.Slot
    THEN [store EXCEPT !.OptimisticHeader = update.AttestedHeader]
    ELSE store

\* a faulty variant of the part below: the maximum is not raised
apply_max_active_participants_wrong(store, update) == store

\* apply_generic_update, "Update max active participants"
apply_max_active_participants(store, update) ==
    IF getBits(update.SyncAggregate.Sync_committee_bits) > store.CurrentMaxActiveParticipants
    THEN [store EXCEPT !.CurrentMaxActiveParticipants =
                           getBits(update.SyncAggregate.Sync_committee_bits)]
    ELSE store

\* apply_generic_update: the Store it leaves and the checkpoint it returns
apply_generic_update(store, update) ==
    apply_if_should(
        apply_optimistic_header(apply_max_active_participants(store, update), update),
        update)

\* apply_update, apply_finality_update and apply_optimistic_update, given the
\* GenericUpdate they build: the Store and lastCheckpoint they leave
apply_wrapper(store, checkpointBefore, genUpdate) ==
    LET r == apply_generic_update(store, genUpdate)
    IN [store |-> r.store,
        lastCheckpoint |-> IF ~r.checkpoint.nil THEN r.checkpoint ELSE checkpointBefore]

(***************************************************************************)
(* What the Consensus RPC can answer: the inputs of the driver.            *)
(***************************************************************************)
Offsets == {0, 33}

\* the slots of periods 0..maxPeriod that headers and signatures are drawn from
SlotsUpTo(maxPeriod) == {p * 8192 + o : p \in 0..maxPeriod, o \in Offsets}

Slots == SlotsUpTo(MaxPeriod)

BitCounts == {0, 1, 341, 342, 512}

\* committee p + 1 serves sync period p
CommitteeOfPeriod(period) == period + 1

\* the readings of expected_current_slot()
Clock == {p * 8192 + 34 : p \in 0..MaxPeriod}

BeaconHeader(slot, stateRoot) ==
    [Slot |-> slot, State_root |-> stateRoot, Body_root |-> <<6, slot>>]

\* an inner node of the state tree, as isProofValid derives it
TreeNode(left, right) == Sha256(Sha256(Concat(left, right)))

\* Branches of a state tree that holds finalizedHeader at (6, 41) and
\* nextCommittee at (5, 23); the other leaves are zero.
GoodFinalityBranch(finalizedHeader, nextCommittee) ==
    <<ZeroRoot, ZeroRoot, TreeNode(ZeroRoot, CommitteeTreeHashRoot(nextCommittee)),
      ZeroRoot, ZeroRoot, ZeroRoot>>

GoodNextCommitteeBranch(finalizedHeader, nextCommittee) ==
    <<ZeroRoot, TreeNode(TreeNode(ZeroRoot, HeaderTreeHashRoot(finalizedHeader)), ZeroRoot),
      ZeroRoot, ZeroRoot, ZeroRoot>>

StateRootHolding(finalizedHeader, nextCommittee) ==
    deriveRoot(HeaderTreeHashRoot(finalizedHeader),
               GoodFinalityBranch(finalizedHeader, nextCommittee), 41, 1)

\* a state tree that holds currentCommittee at (5, 22)
GoodCurrentCommitteeBranch == <<ZeroRoot, ZeroRoot, ZeroRoot, ZeroRoot, ZeroRoot>>

StateRootHoldingCurrent(currentCommittee) ==
    deriveRoot(CommitteeTreeHashRoot(currentCommittee), GoodCurrentCommitteeBranch, 22, 1)

\* a branch with one node replaced
Tampered(branch) == [branch EXCEPT ![1] = <<8>>]

\* the aggregate signature of the first bits members of committee signer over
\* attestedHeader, in the fork domain of signatureSlot
Sign(signer, bits, attestedHeader, signatureSlot) ==
    [pks |-> [committee |-> signer, n |-> bits],
     msg |-> ComputeCommitteeSignRoot(HeaderTreeHashRoot(attestedHeader),
                 ComputeForkDataRoot(CalculateForkVersion(Forks, signatureSlot), GenesisRoot))]

SyncAggregateOf(signer, bits, attestedHeader, signatureSlot) ==
    [Sync_committee_bits |-> bits,
     Sync_committee_signature |-> Sign(signer, bits, attestedHeader, signatureSlot)]

\* who signed an answer: the committee serving the period of the signature
\* slot, or the one after it
SignerOf(sig, honest) ==
    IF honest THEN CommitteeOfPeriod(calculate_sync_period(sig))
    ELSE CommitteeOfPeriod(calculate_sync_period(sig) + 1)

\* what may be wrong with the proofs of an answer
Defects == {"none", "bad finality branch", "no finality branch", "bad next committee branch"}

FinalityBranchOf(defect, finalizedHeader, nextCommittee) ==
    CASE defect = "bad finality branch" ->
             Ptr(Tampered(GoodFinalityBranch(finalizedHeader, nextCommittee)))
      [] defect = "no finality branch" -> NilSlice
      [] OTHER -> Ptr(GoodFinalityBranch(finalizedHeader, nextCommittee))

NextCommitteeBranchOf(defect, finalizedHeader, nextCommittee) ==
    IF defect = "bad next committee branch"
    THEN Ptr(Tampered(GoodNextCommitteeBranch(finalizedHeader, nextCommittee)))
    ELSE Ptr(GoodNextCommitteeBranch(finalizedHeader, nextCommittee))

\* consensus_core.Update as decoded from the RPC answer; the next committee
\* is the one that follows the attested period's
MkUpdate(att, fin, sig, bits, signer, defect) ==
    LET nc == CommitteeOfPeriod(calculate_sync_period(att) + 1)
        finalizedHeader == BeaconHeader(fin, ZeroRoot)
        attestedHeader == BeaconHeader(att, StateRootHolding(finalizedHeader, nc))
    IN [AttestedHeader         |-> attestedHeader,
        SyncAggregate          |-> SyncAggregateOf(signer, bits, attestedHeader, sig),
        SignatureSlot          |-> sig,
        NextSyncCommitee       |-> nc,
        NextSyncCommiteeBranch |-> NextCommitteeBranchOf(defect, finalizedHeader, nc),
        FinalizedHeader        |-> finalizedHeader,
        FinalityBranch         |-> FinalityBranchOf(defect, finalizedHeader, nc)]

\* consensus_core.FinalityUpdate
MkFinalityUpdate(att, fin, sig, bits, signer, defect) ==
    LET finalizedHeader == BeaconHeader(fin, ZeroRoot)
        attestedHeader == BeaconHeader(att, StateRootHolding(finalizedHeader, ZeroCommittee))
    IN [AttestedHeader  |-> attestedHeader,
        SyncAggregate   |-> SyncAggregateOf(signer, bits, attestedHeader, sig),
        SignatureSlot   |-> sig,
        FinalizedHeader |-> finalizedHeader,
        FinalityBranch  |-> FinalityBranchOf(defect, finalizedHeader, ZeroCommittee)]

\* consensus_core.OptimisticUpdate
MkOptimisticUpdate(att, sig, bits, signer) ==
    LET attestedHeader == BeaconHeader(att, ZeroRoot)
    IN [AttestedHeader |-> attestedHeader,
        SyncAggregate  |-> SyncAggregateOf(signer, bits, attestedHeader, sig),
        SignatureSlot  |-> sig]

UpdatesOver(slots, bitCounts) ==
    {MkUpdate(att, fin, sig, bits, SignerOf(sig, honest), defect) :
        att \in slots, fin \in slots, sig \in slots, bits \in bitCounts,
        honest \in BOOLEAN, defect \in Defects}

FinalityUpdatesOver(slots, bitCounts) ==
    {MkFinalityUpdate(att, fin, sig, bits, SignerOf(sig, honest), defect) :
        att \in slots, fin \in slots, sig \in slots, bits \in bitCounts,
        honest \in BOOLEAN, defect \in Defects \ {"bad next committee branch"}}

OptimisticUpdatesOver(slots, bitCounts) ==
    {MkOptimisticUpdate(att, sig, bits, SignerOf(sig, honest)) :
        att \in slots, sig \in slots, bits \in bitCounts, honest \in BOOLEAN}

\* the driver is answered signed updates; one without any bit is the
\* verifier's first clause, exercised in SpecVerify
SignedBitCounts == BitCounts \ {0}

Updates == UpdatesOver(Slots, SignedBitCounts)

FinalityUpdates == FinalityUpdatesOver(Slots, SignedBitCounts)

OptimisticUpdates == OptimisticUpdatesOver(Slots, SignedBitCounts)

\* consensus_core.Bootstrap for the header at slot
MkBootstrap(slot, defect) ==
    LET committee == CommitteeOfPeriod(calculate_sync_period(slot))
    IN [Header |-> BeaconHeader(slot, StateRootHoldingCurrent(committee)),
        CurrentSyncCommittee |-> committee,
        CurrentSyncCommitteeBranch |->
            IF defect = "none" THEN GoodCurrentCommitteeBranch
            ELSE Tampered(GoodCurrentCommitteeBranch)]

Bootstraps == {MkBootstrap(slot, defect) : slot \in Slots, defect \in {"none", "bad branch"}}

\* an RPC answer: a transport error, or a value
RpcError == [error |-> TRUE, val |-> <<>>]

RpcOk(v) == [error |-> FALSE, val |-> v]

BootstrapAnswers == {RpcError} \cup {RpcOk(b) : b \in Bootstraps}

\* the checkpoints a caller may name: the roots of the chain's headers
Checkpoints == {HeaderTreeHashRoot(MkBootstrap(slot, "none").Header) : slot \in Slots}

FinalityAnswers == {RpcError} \cup {RpcOk(u) : u \in FinalityUpdates}

OptimisticAnswers == {RpcError} \cup {RpcOk(u) : u \in OptimisticUpdates}

(***************************************************************************)
(* The driver: bootstrap, sync, advance.                                   *)
(***************************************************************************)
\* LightClientStore{}
EmptyStore ==
    [FinalizedHeader               |-> ZeroHeader,
     CurrentSyncCommitee           |-> ZeroCommittee,
     NextSyncCommitee              |-> NilCommittee,
     OptimisticHeader              |-> ZeroHeader,
     PreviousMaxActiveParticipants |-> 0,
     CurrentMaxActiveParticipants  |-> 0]

\* Config.MaxCheckpointAge, in seconds, as configured for the modelled client
MaxCheckpointAge == 98400

\* the genesis time is added to both timestamps and cancels; uint64(slotAge)
\* of a negative age is at least 2^63
is_valid_checkpoint(blockHashSlot, currentSlot) ==
    LET slotAge == currentSlot * 12 - blockHashSlot * 12
    IN slotAge >= 0 /\ slotAge < MaxCheckpointAge

\* verify_bootstrap returns nothing: what it logs
verify_bootstrap(checkpoint, bootstrap) ==
    IF ~isCurrentCommitteeProofValid(bootstrap.Header, bootstrap.CurrentSyncCommittee,
                                     bootstrap.CurrentSyncCommitteeBranch)
    THEN "invalid current sync committee proof"
    ELSE IF HeaderTreeHashRoot(bootstrap.Header) # checkpoint
    THEN "invalid header hash"
    ELSE "ok"

apply_bootstrap(store, bootstrap) ==
    [store EXCEPT !.FinalizedHeader = bootstrap.Header,
                  !.CurrentSyncCommitee = bootstrap.CurrentSyncCommittee,
                  !.NextSyncCommitee = NilCommittee,
                  !.OptimisticHeader = bootstrap.Header,
                  !.PreviousMaxActiveParticipants = 0,
                  !.CurrentMaxActiveParticipants = 0]

\* bootstrap(checkpoint), given the answer of RPC.GetBootstrap: whether it
\* reaches verify_bootstrap and apply_bootstrap
bootstrap_applies(answer, currentSlot, strictCheckpointAge) ==
    IF answer.error THEN FALSE
    ELSE IF ~is_valid_checkpoint(answer.val.Header.Slot, currentSlot) /\ strictCheckpointAge
    THEN FALSE
    ELSE TRUE

\* bootstrap(checkpoint): the Store it leaves
bootstrap(store, checkpoint, answer, currentSlot, strictCheckpointAge) ==
    IF bootstrap_applies(answer, currentSlot, strictCheckpointAge)
    THEN apply_bootstrap(store, answer.val)
    ELSE store

\* a faulty variant of the pair below: the update is applied whatever the
\* verifier said
verify_then_apply_wrong(store, checkpointBefore, genUpdate, expectedCurrentSlot) ==
    [store |-> apply_wrapper(store, checkpointBefore, genUpdate).store,
     lastCheckpoint |-> apply_wrapper(store, checkpointBefore, genUpdate).lastCheckpoint,
     err |-> verify_generic_update(genUpdate, expectedCurrentSlot, store),
     applied |-> verify_generic_update(genUpdate, expectedCurrentSlot, store) = "nil"]

\* "if err := in.verify_x(&update); err != nil { return err }; in.apply_x(&update)"
\* for the GenericUpdate both wrappers build
verify_then_apply(store, checkpointBefore, genUpdate, expectedCurrentSlot) ==
    IF verify_generic_update(genUpdate, expectedCurrentSlot, store) # "nil"
    THEN [store |-> store, lastCheckpoint |-> checkpointBefore,
          err |-> verify_generic_update(genUpdate, expectedCurrentSlot, store),
          applied |-> FALSE]
    ELSE [store |-> apply_wrapper(store, checkpointBefore, genUpdate).store,
          lastCheckpoint |-> apply_wrapper(store, checkpointBefore, genUpdate).lastCheckpoint,
          err |-> "nil", applied |-> TRUE]

NoUpdate == GenericOfOptimisticUpdate(
                [AttestedHeader |-> ZeroHeader,
                 SyncAggregate  |-> [Sync_committee_bits |-> 0,
                                     Sync_committee_signature |->
                                         [pks |-> [committee |-> 0, n |-> 0], msg |-> ZeroRoot]],
                 SignatureSlot  |-> 0])

NoBoot == [called |-> FALSE, applied |-> FALSE, checkpoint |-> ZeroRoot, log |-> "none"]

NoPre == [Store |-> EmptyStore, lastCheckpoint |-> NilSlice]

\* get_payloads has not returned
NoPayloads == [returned |-> FALSE, via |-> "none", payloads |-> <<>>, err |-> "nil"]

\* get_payloads is not running
NoBackfill == [phase |-> "idle", startSlot |-> 0, endSlot |-> 0, slot |-> 0,
               prevParentHash |-> 0, workers |-> <<>>, payloadsChan |-> <<>>,
               errorChan |-> <<>>, payloadsClosed |-> FALSE,
               errorClosed |-> FALSE, payloads |-> <<>>, result |-> NoPayloads]

\* Config with neither fallback configured
NoFallbacks == [LoadExternalFallback |-> FALSE, Fallback |-> FALSE]

\* no checkpoint received: no send_blocks call, a nil pointer
NoValue == [send |-> -1, val |-> NilSlice]

\* no block: the zero value of a *common.Block
NilBlock == [nil |-> TRUE, val |-> [Number |-> -1, Transactions |-> <<>>]]

NoBlock == [send |-> -1, val |-> NilBlock]

NothingReceived == [BlockRecv |-> NoBlock, FinalizedBlockRecv |-> NoBlock,
                    CheckpointRecv |-> NoValue, next |-> "blockSend"]

\* isProofValid was not called
NoProof == [called |-> FALSE, stateRoot |-> ZeroRoot, leafRoot |-> ZeroRoot,
            branch |-> <<>>, depth |-> 0, index |-> 0, result |-> FALSE]

\* ComputeDomain was not called
NoDomain == [called |-> FALSE, domainType |-> <<>>, forkDataRoot |-> <<>>, result |-> <<>>]

NothingSent == [called |-> FALSE, err |-> "none", spawned |-> FALSE,
                bodyRoots |-> <<>>, headers |-> <<>>]

\* the channels, the goroutine and the database before ConsensusClient.New
\* starts the goroutine
ClientNotStarted ==
    /\ config = NoFallbacks
    /\ driver = "none"
    /\ syncs = <<>>
    /\ sends = 0
    /\ senders = {}
    /\ blockSend = <<>>
    /\ received = NothingReceived
    /\ stopped = FALSE
    /\ saved = NilSlice
    /\ sent = NothingSent
    /\ domainCall = NoDomain
    /\ proofCall = NoProof
    /\ backfill = NoBackfill

Init ==
    /\ Store = EmptyStore
    /\ lastCheckpoint = NilSlice
    /\ now = 34
    /\ pc = "idle"
    /\ remaining = 0
    /\ boot = NoBoot
    /\ upd = NoUpdate
    /\ kind = "none"
    /\ err = "none"
    /\ applied = FALSE
    /\ pre = NoPre
    /\ fetches = 0
    /\ ClientNotStarted

\* the step's record of the last update it handled: r is what
\* verify_then_apply made of genUpdate, before the Store and lastCheckpoint
\* it started from
Observe(r, genUpdate, k, before) ==
    /\ Store' = r.store
    /\ lastCheckpoint' = r.lastCheckpoint
    /\ err' = r.err
    /\ applied' = r.applied
    /\ upd' = IF r.applied THEN genUpdate ELSE NoUpdate
    /\ kind' = k
    /\ pre' = [Store |-> before.store, lastCheckpoint |-> before.lastCheckpoint]

\* the step returned on a transport error before handling an update
RpcFailed ==
    /\ UNCHANGED <<Store, lastCheckpoint>>
    /\ err' = "rpc"
    /\ applied' = FALSE
    /\ upd' = NoUpdate
    /\ kind' = "none"
    /\ pre' = [Store |-> Store, lastCheckpoint |-> lastCheckpoint]

Here == [store |-> Store, lastCheckpoint |-> lastCheckpoint]

\* sync(checkpoint) up to the answer of RPC.GetUpdates: reset, bootstrap,
\* fetch the updates (updates is the length of the list answered, -1 for a
\* transport error).  strict is Config.StrictCheckpointAge.
SyncBegin ==
    /\ pc = "idle"
    /\ \E checkpoint \in Checkpoints, answer \in BootstrapAnswers,
          strict \in BOOLEAN, updates \in {-1} \cup (0..MaxUpdates) :
        /\ Store' = bootstrap(EmptyStore, checkpoint, answer, now, strict)
        /\ boot' = [called |-> TRUE,
                    applied |-> bootstrap_applies(answer, now, strict),
                    checkpoint |-> checkpoint,
                    log |-> IF bootstrap_applies(answer, now, strict)
                            THEN verify_bootstrap(checkpoint, answer.val)
                            ELSE "none"]
        /\ remaining' = IF updates < 0 THEN 0 ELSE updates
        /\ pc' = IF updates < 0 THEN "returned" ELSE "sync_loop"
        /\ err' = IF updates < 0 THEN "rpc" ELSE "none"
    /\ lastCheckpoint' = NilSlice
    /\ fetches' = 1
    /\ upd' = NoUpdate
    /\ kind' = "none"
    /\ applied' = FALSE
    /\ pre' = NoPre
    /\ UNCHANGED now
    /\ UNCHANGED clientVars

\* the head of "for _, update := range updates": the next update, or the
\* end of the list; the record of what came before is dropped
SyncNext ==
    /\ pc = "sync_loop"
    /\ pc' = IF remaining > 0 THEN "sync_update" ELSE "sync_tail"
    /\ boot' = NoBoot
    /\ upd' = NoUpdate
    /\ kind' = "none"
    /\ err' = "none"
    /\ applied' = FALSE
    /\ pre' = NoPre
    /\ UNCHANGED <<Store, lastCheckpoint, now, remaining, fetches>>
    /\ UNCHANGED clientVars

\* the body of the loop over the fetched updates
SyncUpdate ==
    /\ pc = "sync_update"
    /\ \E update \in Updates :
        /\ Observe(verify_then_apply(Store, lastCheckpoint, GenericOfUpdate(update), now),
                   GenericOfUpdate(update), "update", Here)
        /\ remaining' = IF applied' THEN remaining - 1 ELSE 0
        /\ pc' = IF applied' THEN "sync_loop" ELSE "returned"
    /\ UNCHANGED <<now, boot, fetches>>
    /\ UNCHANGED clientVars

\* advance(), last part: while the Store has no next committee, one update of
\* the current period (n is the length of the list RPC.GetUpdates answers, -1
\* for a transport error); a failed verification is not returned
CommitteeUpdateStage(r1, r2, g2) ==
    \E n \in {-1, 0, 1}, update \in Updates :
        IF n < 1 THEN Observe(r2, g2, "optimistic", r1)
        ELSE Observe(verify_then_apply(r2.store, r2.lastCheckpoint, GenericOfUpdate(update), now),
                     GenericOfUpdate(update), "update", r2)

\* what follows the optimistic update g2, handled with result r2
AfterOptimistic(r1, r2, g2, inAdvance) ==
    IF inAdvance /\ r2.applied /\ r2.store.NextSyncCommitee.nil
    THEN CommitteeUpdateStage(r1, r2, g2)
    ELSE Observe(r2, g2, "optimistic", r1)

\* "Fetch and apply optimistic update", in sync and in advance, after the
\* finality update g1 was applied with result r1
OptimisticStage(r1, g1, inAdvance) ==
    \E opt \in OptimisticAnswers :
        IF opt.error THEN Observe(r1, g1, "finality", Here)
        ELSE AfterOptimistic(r1,
                 verify_then_apply(r1.store, r1.lastCheckpoint,
                                   GenericOfOptimisticUpdate(opt.val), now),
                 GenericOfOptimisticUpdate(opt.val), inAdvance)

\* a faulty variant of the one below: the optimistic update is handled even
\* when the finality update was rejected
AfterFinality_wrong(r1, g1, inAdvance) == OptimisticStage(r1, g1, inAdvance)

\* what follows the finality update g1, handled with result r1
AfterFinality(r1, g1, inAdvance) ==
    IF ~r1.applied THEN Observe(r1, g1, "finality", Here)
    ELSE OptimisticStage(r1, g1, inAdvance)

\* "Fetch and apply finality update", in sync and in advance, and what
\* follows it
FinalityStage(inAdvance) ==
    \E fin \in FinalityAnswers :
        IF fin.error THEN RpcFailed
        ELSE AfterFinality(
                 verify_then_apply(Store, lastCheckpoint, GenericOfFinalityUpdate(fin.val), now),
                 GenericOfFinalityUpdate(fin.val), inAdvance)

\* the rest of sync: the finality update, then the optimistic update
SyncTail ==
    /\ pc = "sync_tail"
    /\ FinalityStage(FALSE)
    /\ fetches' = fetches + 1
    /\ pc' = "returned"
    /\ UNCHANGED <<now, boot, remaining>>
    /\ UNCHANGED clientVars

\* advance()
Advance ==
    /\ pc = "idle"
    /\ FinalityStage(TRUE)
    /\ pc' = "returned"
    /\ UNCHANGED <<now, boot, remaining, fetches>>
    /\ UNCHANGED clientVars

\* the method returns to its caller; the record of the call is dropped
Return ==
    /\ pc = "returned"
    /\ pc' = "idle"
    /\ remaining' = 0
    /\ boot' = NoBoot
    /\ upd' = NoUpdate
    /\ kind' = "none"
    /\ err' = "none"
    /\ applied' = FALSE
    /\ pre' = NoPre
    /\ fetches' = 0
    /\ UNCHANGED <<Store, lastCheckpoint, now>>
    /\ UNCHANGED clientVars

\* time passes between two calls
Tick ==
    /\ pc = "idle"
    /\ \E c \in Clock : c > now /\ now' = c
    /\ UNCHANGED <<Store, lastCheckpoint, pc, remaining, boot, upd, kind, err, applied,
                   pre, fetches>>
    /\ UNCHANGED clientVars

Next == SyncBegin \/ SyncNext \/ SyncUpdate \/ SyncTail \/ Advance \/ Return \/ Tick

Spec == Init /\ [][Next]_vars

(***************************************************************************)
(* The verifier alone: one call of verify_update, verify_finality_update   *)
(* or verify_optimistic_update on a Store the driver can have built.       *)
(***************************************************************************)
\* one period more than the driver's slots, so that a signature can lie two
\* periods after the Store
VerifySlots == SlotsUpTo(MaxPeriod + 1)

VerifyClock == {34, (MaxPeriod + 1) * 8192 + 34}

\* the Store after bootstrap at the first slot of period
BootStoreAt(period) == apply_bootstrap(EmptyStore, MkBootstrap(period * 8192, "none"))

\* and after the update of that period that brings the next committee
StoreWithNextAt(period) ==
    apply_generic_update(
        BootStoreAt(period),
        GenericOfUpdate(MkUpdate(period * 8192, period * 8192, period * 8192 + 33, 342,
                                 CommitteeOfPeriod(period), "none"))).store

VerifyStores == {BootStoreAt(p) : p \in 0..MaxPeriod} \cup {StoreWithNextAt(p) : p \in 0..MaxPeriod}

VerifyUpdates == UpdatesOver(VerifySlots, BitCounts)

VerifyFinalityUpdates == FinalityUpdatesOver(VerifySlots, BitCounts)

VerifyOptimisticUpdates == OptimisticUpdatesOver(VerifySlots, BitCounts)

InitVerify ==
    /\ Store \in VerifyStores
    /\ lastCheckpoint = NilSlice
    /\ now \in VerifyClock
    /\ pc = "idle"
    /\ remaining = 0
    /\ boot = NoBoot
    /\ upd = NoUpdate
    /\ kind = "none"
    /\ err = "none"
    /\ applied = FALSE
    /\ pre = NoPre
    /\ fetches = 0
    /\ ClientNotStarted

\* the call returned result for genUpdate, built by wrapper k
Verified(genUpdate, k, result) ==
    /\ pc' = "verified"
    /\ upd' = genUpdate
    /\ kind' = k
    /\ err' = result
    /\ UNCHANGED <<Store, lastCheckpoint, now, remaining, boot, applied, pre, fetches>>
    /\ UNCHANGED clientVars

VerifyUpdate ==
    /\ pc = "idle"
    /\ \E update \in VerifyUpdates :
        Verified(GenericOfUpdate(update), "update", verify_update(update, now, Store))

VerifyFinalityUpdate ==
    /\ pc = "idle"
    /\ \E update \in VerifyFinalityUpdates :
        Verified(GenericOfFinalityUpdate(update), "finality",
                 verify_finality_update(update, now, Store))

VerifyOptimisticUpdate ==
    /\ pc = "idle"
    /\ \E update \in VerifyOptimisticUpdates :
        Verified(GenericOfOptimisticUpdate(update), "optimistic",
                 verify_optimistic_update(update, now, Store))

\* "in.apply_x(&update)" after the verification of the update returned nil
ApplyVerified ==
    /\ pc = "verified"
    /\ err = "nil"
    /\ pc' = "applied"
    /\ Store' = apply_wrapper(Store, lastCheckpoint, upd).store
    /\ lastCheckpoint' = apply_wrapper(Store, lastCheckpoint, upd).lastCheckpoint
    /\ applied' = TRUE
    /\ pre' = [Store |-> Store, lastCheckpoint |-> lastCheckpoint]
    /\ UNCHANGED <<now, remaining, boot, upd, kind, err, fetches>>
    /\ UNCHANGED clientVars

NextVerify ==
    \/ VerifyUpdate
    \/ VerifyFinalityUpdate
    \/ VerifyOptimisticUpdate
    \/ ApplyVerified

SpecVerify == InitVerify /\ [][NextVerify]_vars

(***************************************************************************)
(* send_blocks: the payload check and the three sender goroutines.         *)
(***************************************************************************)
\* an ExecutionPayload is named by its Block_number; a BeaconBlockBody by the
\* payload it carries
BodyOf(payload) == [Execution_payload |-> payload]

\* BeaconBlockBody.TreeHashRoot(): the body of the block proposed at slot s
\* carries payload s, and BeaconHeader(s, _).Body_root is its root
BodyTreeHashRoot(body) == <<6, body.Execution_payload>>

BlockAt(slot, payload) == [Slot |-> slot, Body |-> BodyOf(payload)]

\* what RPC.GetBlock(slot) can answer: a transport error, the block proposed
\* at slot, or a block with another body
BlockAnswers(slot) ==
    {RpcError} \cup {RpcOk(BlockAt(slot, payload)) : payload \in {slot, slot + 1}}

NoPayload == -1

PayloadResult(e, payload, bodyRoot, header) ==
    [err |-> e, payload |-> payload, bodyRoots |-> bodyRoot, headers |-> header]

\* check_execution_payload(ctx, &slot) when RPC.GetBlock(slot) answers answer;
\* bodyRoots and headers record the root computed from the fetched body and
\* the Store header of the queried slot
check_execution_payload(store, slot, answer) ==
    IF answer.error THEN PayloadResult("rpc", NoPayload, <<>>, <<>>)
    ELSE IF slot = store.OptimisticHeader.Slot
    THEN IF HeaderTreeHashRoot(store.OptimisticHeader) # BodyTreeHashRoot(answer.val.Body)
         THEN PayloadResult("InvalidHeaderHash", NoPayload,
                            <<BodyTreeHashRoot(answer.val.Body)>>, <<store.OptimisticHeader>>)
         ELSE PayloadResult("none", answer.val.Body.Execution_payload,
                            <<BodyTreeHashRoot(answer.val.Body)>>, <<store.OptimisticHeader>>)
    ELSE IF slot = store.FinalizedHeader.Slot
    THEN IF HeaderTreeHashRoot(store.FinalizedHeader) # BodyTreeHashRoot(answer.val.Body)
         THEN PayloadResult("InvalidHeaderHash", NoPayload,
                            <<BodyTreeHashRoot(answer.val.Body)>>, <<store.FinalizedHeader>>)
         ELSE PayloadResult("none", answer.val.Body.Execution_payload,
                            <<BodyTreeHashRoot(answer.val.Body)>>, <<store.FinalizedHeader>>)
    ELSE PayloadResult("PayloadNotFound", NoPayload,
                       <<BodyTreeHashRoot(answer.val.Body)>>, <<>>)

\* the second check of send_blocks, made when the first (r1) passed
CheckFinalizedPayload(store, r1, finalizedAnswer, r2) ==
    [err              |-> r2.err,
     payload          |-> r1.payload,
     finalizedPayload |-> r2.payload,
     bodyRoots        |-> r1.bodyRoots \o r2.bodyRoots,
     headers          |-> r1.headers \o r2.headers]

\* send_blocks up to the start of the goroutines: the payload at the
\* optimistic slot, then the payload at the finalized slot
CheckPayloads(store, r1, finalizedAnswer) ==
    IF r1.err # "none"
    THEN [err |-> r1.err, payload |-> NoPayload, finalizedPayload |-> NoPayload,
          bodyRoots |-> r1.bodyRoots, headers |-> r1.headers]
    ELSE CheckFinalizedPayload(store, r1, finalizedAnswer,
             check_execution_payload(store, store.FinalizedHeader.Slot, finalizedAnswer))

\* PayloadToBlock: the execution block built from a payload
PayloadToBlock(value) == [Number |-> value, Transactions |-> <<>>]

\* the three goroutines send_blocks starts in its call number k; the third
\* reads in.lastCheckpoint only when it runs
Senders(k, payload, finalizedPayload) ==
    {[channel |-> "blockSend", send |-> k, read |-> TRUE,
      block |-> Ptr(PayloadToBlock(payload)), checkpoint |-> NilSlice],
     [channel |-> "finalizedBlockSend", send |-> k, read |-> TRUE,
      block |-> Ptr(PayloadToBlock(finalizedPayload)), checkpoint |-> NilSlice],
     [channel |-> "checkpointSend", send |-> k, read |-> FALSE,
      block |-> NilBlock, checkpoint |-> NilSlice]}

\* send_blocks, its call number sends + 1, with result r of its two checks
SendBlocksWith(r) ==
    /\ sends' = sends + 1
    /\ sent' = [called |-> TRUE, err |-> r.err, spawned |-> r.err = "none",
                bodyRoots |-> r.bodyRoots, headers |-> r.headers]
    /\ senders' = IF r.err = "none"
                  THEN senders \cup Senders(sends + 1, r.payload, r.finalizedPayload)
                  ELSE senders

\* the Stores send_blocks is called on: a finalized header and an optimistic
\* header not behind it
PayloadStoreAt(fin, opt) ==
    [EmptyStore EXCEPT !.FinalizedHeader = BeaconHeader(fin, ZeroRoot),
                       !.OptimisticHeader = BeaconHeader(opt, ZeroRoot),
                       !.CurrentSyncCommitee = CommitteeOfPeriod(calculate_sync_period(fin))]

PayloadStores ==
    {PayloadStoreAt(p[1], p[2]) : p \in {q \in VerifySlots \X VerifySlots : q[2] >= q[1]}}

InitPayload ==
    /\ Store \in PayloadStores
    /\ lastCheckpoint = NilSlice
    /\ now = 34
    /\ pc = "idle"
    /\ remaining = 0
    /\ boot = NoBoot
    /\ upd = NoUpdate
    /\ kind = "none"
    /\ err = "none"
    /\ applied = FALSE
    /\ pre = NoPre
    /\ fetches = 0
    /\ config = NoFallbacks
    /\ driver = "send"
    /\ syncs = <<>>
    /\ sends = 0
    /\ senders = {}
    /\ blockSend = <<>>
    /\ received = NothingReceived
    /\ stopped = FALSE
    /\ saved = NilSlice
    /\ sent = NothingSent
    /\ domainCall = NoDomain
    /\ proofCall = NoProof
    /\ backfill = NoBackfill

\* one call of send_blocks, whatever RPC.GetBlock answers
SendBlocksChecked ==
    /\ driver = "send"
    /\ \E optimisticAnswer \in BlockAnswers(Store.OptimisticHeader.Slot),
          finalizedAnswer \in BlockAnswers(Store.FinalizedHeader.Slot) :
        SendBlocksWith(CheckPayloads(Store,
            check_execution_payload(Store, Store.OptimisticHeader.Slot, optimisticAnswer),
            finalizedAnswer))
    /\ driver' = "sleep"
    /\ UNCHANGED <<Store, lastCheckpoint, now, pc, remaining, boot, upd, kind, err,
                   applied, pre, fetches, config, syncs, blockSend, received,
                   stopped, saved, domainCall, proofCall, backfill>>

\* the Store and lastCheckpoint a call of advance() can leave: the headers
\* move forward or stay, and a finalized header that moved to the first slot
\* of an epoch sets lastCheckpoint (apply_generic_update, lines 768-783)
AdvancedFrom(store) ==
    {s \in PayloadStores : /\ s.FinalizedHeader.Slot >= store.FinalizedHeader.Slot
                           /\ s.OptimisticHeader.Slot >= store.OptimisticHeader.Slot}

CheckpointAfter(store, checkpoint, advanced) ==
    IF /\ advanced.FinalizedHeader.Slot > store.FinalizedHeader.Slot
       /\ advanced.FinalizedHeader.Slot % 32 = 0
    THEN Ptr(HeaderTreeHashRoot(advanced.FinalizedHeader))
    ELSE checkpoint

\* one round of the loop of ConsensusClient.New up to send_blocks: the sleep,
\* then advance(), whose result (the Store it leaves, and whether it returned
\* an error) is an input; after an error the loop continues with the sleep
LoopAdvance ==
    /\ driver = "sleep"
    /\ sends < MaxSends
    /\ \E advanced \in AdvancedFrom(Store), failed \in BOOLEAN :
        /\ Store' = advanced
        /\ lastCheckpoint' = CheckpointAfter(Store, lastCheckpoint, advanced)
        /\ driver' = IF failed THEN "sleep" ELSE "send"
    /\ UNCHANGED <<now, pc, remaining, boot, upd, kind, err, applied, pre, fetches,
                   config, syncs, sends, senders, blockSend, received, stopped,
                   saved, sent, domainCall, proofCall, backfill>>

NextPayload == SendBlocksChecked \/ LoopAdvance

SpecPayload == InitPayload /\ [][NextPayload]_vars

(***************************************************************************)
(* ConsensusClient.New and Shutdown: the goroutine (sync, fallbacks, the   *)
(* loop of advance and send_blocks), the goroutines send_blocks starts,    *)
(* the three receives of New, and Shutdown.  What inner.sync, the          *)
(* checkpoint fetches, advance and the payload checks answer are inputs.   *)
(***************************************************************************)
\* make(chan common.Block, 256); the other two channels have no buffer
blockSendCapacity == 256

Configs == [LoadExternalFallback : BOOLEAN, Fallback : BOOLEAN]

InitClient ==
    /\ Store = EmptyStore
    /\ lastCheckpoint = NilSlice
    /\ now = 34
    /\ pc = "idle"
    /\ remaining = 0
    /\ boot = NoBoot
    /\ upd = NoUpdate
    /\ kind = "none"
    /\ err = "none"
    /\ applied = FALSE
    /\ pre = NoPre
    /\ fetches = 0
    /\ config \in Configs
    /\ driver = "sync"
    /\ syncs = <<>>
    /\ sends = 0
    /\ senders = {}
    /\ blockSend = <<>>
    /\ received = NothingReceived
    /\ stopped = FALSE
    /\ saved = NilSlice
    /\ sent = NothingSent
    /\ domainCall = NoDomain
    /\ proofCall = NoProof
    /\ backfill = NoBackfill

\* the Stores a successful sync leaves
SyncedStores == {PayloadStoreAt(0, 0), PayloadStoreAt(8192, 8192)}

\* inner.sync(checkpoint) of a checkpoint from source, and where the
\* goroutine goes after it: sync empties the Store and lastCheckpoint
\* (lines 468-470) and returns nil or an error
SyncFrom(source, ok, synced, onError) ==
    /\ syncs' = Append(syncs, source)
    /\ Store' = IF ok THEN synced ELSE EmptyStore
    /\ lastCheckpoint' = IF ok THEN CheckpointAfter(EmptyStore, NilSlice, synced)
                         ELSE NilSlice
    /\ driver' = IF ok THEN "send" ELSE onError

\* the checkpoint could not be fetched: the fallback returns its error
\* without a sync, and New exits
FetchFailed(source) ==
    /\ syncs' = Append(syncs, source)
    /\ driver' = "exited"
    /\ UNCHANGED <<Store, lastCheckpoint>>

ClientFrame ==
    UNCHANGED <<now, pc, remaining, boot, upd, kind, err, applied, pre, fetches,
                config, sends, senders, blockSend, received, stopped, saved, sent,
                domainCall, proofCall, backfill>>

\* err := inner.sync(initialCheckpoint)
InitialSync ==
    /\ driver = "sync"
    /\ \E ok \in BOOLEAN, synced \in SyncedStores :
        SyncFrom("initial", ok, synced, "fallback")
    /\ ClientFrame

\* if inner.Config.LoadExternalFallback { sync_all_fallback ... os.Exit(1) }
SyncAllFallback ==
    /\ driver = "fallback"
    /\ config.LoadExternalFallback
    /\ \E fetched \in BOOLEAN, ok \in BOOLEAN, synced \in SyncedStores :
        IF fetched THEN SyncFrom("directory", ok, synced, "exited")
        ELSE FetchFailed("directory")
    /\ ClientFrame

\* else if inner.Config.Fallback != nil { sync_fallback ... os.Exit(1) }
SyncFallback ==
    /\ driver = "fallback"
    /\ ~config.LoadExternalFallback
    /\ config.Fallback
    /\ \E fetched \in BOOLEAN, ok \in BOOLEAN, synced \in SyncedStores :
        IF fetched THEN SyncFrom("url", ok, synced, "exited")
        ELSE FetchFailed("url")
    /\ ClientFrame

\* else { os.Exit(1) }
ExitWithoutFallback ==
    /\ driver = "fallback"
    /\ ~config.LoadExternalFallback
    /\ ~config.Fallback
    /\ driver' = "exited"
    /\ UNCHANGED <<Store, lastCheckpoint, syncs>>
    /\ ClientFrame

\* send_blocks, the result of its two payload checks being an input
SendBlocks ==
    /\ driver = "send"
    /\ \E e \in {"none", "rpc", "InvalidHeaderHash"} :
        SendBlocksWith([err              |-> e,
                        payload          |-> Store.OptimisticHeader.Slot,
                        finalizedPayload |-> Store.FinalizedHeader.Slot,
                        bodyRoots        |-> <<>>,
                        headers          |-> <<>>])
    /\ driver' = "sleep"
    /\ UNCHANGED <<Store, lastCheckpoint, now, pc, remaining, boot, upd, kind, err,
                   applied, pre, fetches, config, syncs, blockSend, received,
                   stopped, saved, domainCall, proofCall, backfill>>

SenderFrame ==
    UNCHANGED <<Store, lastCheckpoint, now, pc, remaining, boot, upd, kind, err,
                applied, pre, fetches, config, driver, syncs, sends, stopped,
                saved, sent, domainCall, proofCall, backfill>>

\* the value a sender hands over, with the send_blocks call it comes from
Delivered(s) ==
    [send |-> s.send, val |-> IF s.channel = "checkpointSend" THEN s.checkpoint ELSE s.block]

\* the third goroutine evaluates in.lastCheckpoint, whenever it gets to run
ReadCheckpoint ==
    /\ \E s \in senders :
        /\ s.channel = "checkpointSend"
        /\ ~s.read
        /\ senders' = (senders \ {s}) \cup {[s EXCEPT !.read = TRUE, !.checkpoint = lastCheckpoint]}
    /\ UNCHANGED <<blockSend, received>>
    /\ SenderFrame

\* in.blockSend <- block: into the buffer, when it has room
SendBlock ==
    /\ \E s \in senders :
        /\ s.channel = "blockSend"
        /\ Len(blockSend) < blockSendCapacity
        /\ blockSend' = Append(blockSend, Delivered(s))
        /\ senders' = senders \ {s}
    /\ UNCHANGED received
    /\ SenderFrame

\* blocksReceived := <-blockSend
ReceiveBlock ==
    /\ received.next = "blockSend"
    /\ blockSend # <<>>
    /\ received' = [received EXCEPT !.BlockRecv = Head(blockSend),
                                    !.next = "finalizedBlockSend"]
    /\ blockSend' = Tail(blockSend)
    /\ UNCHANGED senders
    /\ SenderFrame

\* finalizedBlocksReceived := <-finalizedBlockSend, from one of the
\* goroutines waiting to send on it
ReceiveFinalizedBlock ==
    /\ received.next = "finalizedBlockSend"
    /\ \E s \in senders :
        /\ s.channel = "finalizedBlockSend"
        /\ received' = [received EXCEPT !.FinalizedBlockRecv = Delivered(s),
                                        !.next = "checkpointSend"]
        /\ senders' = senders \ {s}
    /\ UNCHANGED blockSend
    /\ SenderFrame

\* checkpointsReceived := <-checkpointSend; New returns
ReceiveCheckpoint ==
    /\ received.next = "checkpointSend"
    /\ \E s \in senders :
        /\ s.channel = "checkpointSend"
        /\ s.read
        /\ received' = [received EXCEPT !.CheckpointRecv = Delivered(s),
                                        !.next = "returned"]
        /\ senders' = senders \ {s}
    /\ UNCHANGED blockSend
    /\ SenderFrame

\* Shutdown on the ConsensusClient that New returned
Shutdown ==
    /\ received.next = "returned"
    /\ ~stopped
    /\ stopped' = TRUE
    /\ saved' = IF received.CheckpointRecv.val.nil THEN saved
                ELSE received.CheckpointRecv.val
    /\ UNCHANGED <<Store, lastCheckpoint, now, pc, remaining, boot, upd, kind, err,
                   applied, pre, fetches, config, driver, syncs, sends, senders,
                   blockSend, received, sent, domainCall, proofCall, backfill>>

NextClient ==
    \/ InitialSync
    \/ SyncAllFallback
    \/ SyncFallback
    \/ ExitWithoutFallback
    \/ SendBlocks
    \/ LoopAdvance
    \/ ReadCheckpoint
    \/ SendBlock
    \/ ReceiveBlock
    \/ ReceiveFinalizedBlock
    \/ ReceiveCheckpoint
    \/ Shutdown

SpecClient == InitClient /\ [][NextClient]_vars

(***************************************************************************)
(* ComputeDomain as a function of its two arguments.                       *)
(***************************************************************************)
\* domain types: the sync committee's (7, 0, 0, 0) and others
DomainTypes == {<<7, 0, 0, 0>>, <<0, 0, 0, 0>>, <<1, 0, 0, 0>>, <<255, 255, 255, 255>>}

\* fork data roots: of every fork version of the schedule, for three genesis
\* validator roots
ForkDataRoots ==
    {ComputeForkDataRoot(Forks[f].ForkVersion, [i \in 1..32 |-> IF i = 32 THEN g ELSE 0]) :
        f \in DOMAIN Forks, g \in {0, 9, 255}}

InitDomain ==
    /\ Store = EmptyStore
    /\ lastCheckpoint = NilSlice
    /\ now = 34
    /\ pc = "idle"
    /\ remaining = 0
    /\ boot = NoBoot
    /\ upd = NoUpdate
    /\ kind = "none"
    /\ err = "none"
    /\ applied = FALSE
    /\ pre = NoPre
    /\ fetches = 0
    /\ config = NoFallbacks
    /\ driver = "none"
    /\ syncs = <<>>
    /\ sends = 0
    /\ senders = {}
    /\ blockSend = <<>>
    /\ received = NothingReceived
    /\ stopped = FALSE
    /\ saved = NilSlice
    /\ sent = NothingSent
    /\ domainCall \in {[NoDomain EXCEPT !.domainType = d, !.forkDataRoot = r] :
                          d \in DomainTypes, r \in ForkDataRoots}
    /\ proofCall = NoProof
    /\ backfill = NoBackfill

\* domain := ComputeDomain(domainType, forkDataRoot)
CallComputeDomain ==
    /\ ~domainCall.called
    /\ domainCall' = [domainCall EXCEPT
                         !.called = TRUE,
                         !.result = ComputeDomain(domainCall.domainType,
                                                  domainCall.forkDataRoot)]
    /\ UNCHANGED <<Store, lastCheckpoint, now, pc, remaining, boot, upd, kind, err,
                   applied, pre, fetches, config, driver, syncs, sends, senders,
                   blockSend, received, stopped, saved, sent, proofCall, backfill>>

NextDomain == CallComputeDomain

SpecDomain == InitDomain /\ [][NextDomain]_vars

(***************************************************************************)
(* isProofValid as a function of its arguments.                            *)
(***************************************************************************)
\* the (depth, index) pairs of the three callers
ProofShapes == {<<6, 41>>, <<5, 22>>, <<5, 23>>}

\* leafObject.TreeHashRoot() of a header and of two committees
ProofLeaves == {HeaderTreeHashRoot(BeaconHeader(0, ZeroRoot)),
                CommitteeTreeHashRoot(1), CommitteeTreeHashRoot(2)}

\* a branch of n nodes, all zero or with another first node
BranchOfLen(n, first) == [i \in 1..n |-> IF i = 1 THEN first ELSE ZeroRoot]

\* the derivation with one SHA-256 application per level, from position i
\* (1-based) of the branch
RECURSIVE singleHashRoot(_, _, _, _)
singleHashRoot(derived, branch, index, i) ==
    IF i > Len(branch) THEN derived
    ELSE singleHashRoot(
             Sha256(IF (index \div Pow2(i - 1)) % 2 # 0
                    THEN Concat(branch[i], derived)
                    ELSE Concat(derived, branch[i])),
             branch, index, i + 1)

\* attestedHeader.State_root of the call: the root derived with one hash per
\* level, the root derived as isProofValid derives it, or another root
StateRootFor(which, leafRoot, branch, index) ==
    IF which = "single" THEN singleHashRoot(leafRoot, branch, index, 1)
    ELSE IF which = "double" THEN deriveRoot(leafRoot, branch, index, 1)
    ELSE ZeroRoot

ProofCalls ==
    {[called    |-> FALSE,
      stateRoot |-> StateRootFor(which, leaf, BranchOfLen(shape[1] + extra, first), shape[2]),
      leafRoot  |-> leaf,
      branch    |-> BranchOfLen(shape[1] + extra, first),
      depth     |-> shape[1],
      index     |-> shape[2],
      result    |-> FALSE] :
        shape \in ProofShapes, leaf \in ProofLeaves, extra \in {-1, 0, 1},
        first \in {ZeroRoot, <<8>>}, which \in {"single", "double", "other"}}

InitProof ==
    /\ Store = EmptyStore
    /\ lastCheckpoint = NilSlice
    /\ now = 34
    /\ pc = "idle"
    /\ remaining = 0
    /\ boot = NoBoot
    /\ upd = NoUpdate
    /\ kind = "none"
    /\ err = "none"
    /\ applied = FALSE
    /\ pre = NoPre
    /\ fetches = 0
    /\ config = NoFallbacks
    /\ driver = "none"
    /\ syncs = <<>>
    /\ sends = 0
    /\ senders = {}
    /\ blockSend = <<>>
    /\ received = NothingReceived
    /\ stopped = FALSE
    /\ saved = NilSlice
    /\ sent = NothingSent
    /\ domainCall = NoDomain
    /\ proofCall \in ProofCalls
    /\ backfill = NoBackfill

\* isProofValid(attestedHeader, leafObject, branch, depth, index)
CallIsProofValid ==
    /\ ~proofCall.called
    /\ proofCall' = [proofCall EXCEPT
                        !.called = TRUE,
                        !.result = isProofValid([ZeroHeader EXCEPT !.State_root = proofCall.stateRoot],
                                                proofCall.leafRoot, proofCall.branch,
                                                proofCall.depth, proofCall.index)]
    /\ UNCHANGED <<Store, lastCheckpoint, now, pc, remaining, boot, upd, kind, err,
                   applied, pre, fetches, config, driver, syncs, sends, senders,
                   blockSend, received, stopped, saved, sent, domainCall, backfill>>

NextProof == CallIsProofValid

SpecProof == InitProof /\ [][NextProof]_vars

(***************************************************************************)
(* get_payloads(startSlot, endSlot): the loop that starts one goroutine    *)
(* per slot, the goroutines, the goroutine that closes the two channels    *)
(* and the select loop that collects.  Each action is one step of one of   *)
(* them between two synchronisations.                                      *)
(***************************************************************************)
\* slots are uint64 in the code; the model keeps SlotBits bits of them
SlotBits == 3

SlotModulus == 2 ^ SlotBits

Uint(x) == x % SlotModulus

\* the arguments get_payloads is called with
MaxBackfillSlot == 3

BackfillSlots == 0..MaxBackfillSlot

\* the goroutines the model lets the loop start
MaxWorkers == 5

\* the values of Execution_payload.Parent_hash in the blocks the RPC answers
BackfillHashes == {1, 2}

\* a goroutine of the loop, before "in.RPC.GetBlock(slot)"
Worker(slot) == [slot |-> slot, at |-> "fetch", failed |-> FALSE, Parent_hash |-> 0]

\* cap(payloadsChan): endSlot-startSlot+1 in uint64
PayloadsCapacity == Uint(backfill.endSlot - backfill.startSlot + 1)

\* cap(errorChan)
errorChanCapacity == 1

WorkersDone == \A i \in 1..Len(backfill.workers) : backfill.workers[i].at = "done"

BackfillFrame ==
    UNCHANGED <<Store, lastCheckpoint, now, pc, remaining, boot, upd, kind, err,
                applied, pre, fetches, config, driver, syncs, sends, senders,
                blockSend, received, stopped, saved, sent, domainCall, proofCall>>

InitBackfill ==
    /\ Store = EmptyStore
    /\ lastCheckpoint = NilSlice
    /\ now = 34
    /\ pc = "idle"
    /\ remaining = 0
    /\ boot = NoBoot
    /\ upd = NoUpdate
    /\ kind = "none"
    /\ err = "none"
    /\ applied = FALSE
    /\ pre = NoPre
    /\ fetches = 0
    /\ ClientNotStarted

\* the call, up to the head of the loop: the block at endSlot is fetched;
\* failed tells that the RPC answered an error
CallGetPayloads ==
    /\ backfill.phase = "idle"
    /\ \E range \in {r \in BackfillSlots \X BackfillSlots : r[1] <= r[2]},
          failed \in BOOLEAN, hash \in BackfillHashes :
        backfill' = IF failed
                    THEN [backfill EXCEPT
                            !.phase = "returned", !.startSlot = range[1],
                            !.endSlot = range[2],
                            !.result = [returned |-> TRUE, via |-> "endBlock",
                                        payloads |-> <<>>, err |-> "rpc"]]
                    ELSE [backfill EXCEPT
                            !.phase = "loop", !.startSlot = range[1],
                            !.endSlot = range[2], !.slot = range[2],
                            !.prevParentHash = hash]
    /\ BackfillFrame

\* one iteration of "for slot := endSlot; slot >= startSlot; slot--":
\* wg.Add(1), go func(slot), slot--
StartWorker ==
    /\ backfill.phase = "loop"
    /\ backfill.slot >= backfill.startSlot
    /\ Len(backfill.workers) < MaxWorkers
    /\ backfill' = [backfill EXCEPT
                      !.workers = Append(@, Worker(backfill.slot)),
                      !.slot = Uint(@ - 1)]
    /\ BackfillFrame

\* the loop condition fails: the closing goroutine is started and the
\* select loop entered
LoopExit ==
    /\ backfill.phase = "loop"
    /\ ~(backfill.slot >= backfill.startSlot)
    /\ backfill' = [backfill EXCEPT !.phase = "collect"]
    /\ BackfillFrame

\* a goroutine from in.RPC.GetBlock(slot) to its first channel operation, or
\* to its return when the parent hash is not prevParentHash; the assignment
\* to prevParentHash stores the value the comparison just found there
WorkerFetch ==
    /\ backfill.phase # "idle"
    /\ \E i \in 1..Len(backfill.workers), failed \in BOOLEAN, hash \in BackfillHashes :
        /\ backfill.workers[i].at = "fetch"
        /\ backfill' = [backfill EXCEPT
                          !.workers[i] =
                              IF failed
                              THEN [@ EXCEPT !.at = "sendError", !.failed = TRUE]
                              ELSE IF hash # backfill.prevParentHash
                              THEN [@ EXCEPT !.at = "done", !.Parent_hash = hash]
                              ELSE [@ EXCEPT !.at = "sendPayload", !.Parent_hash = hash],
                          !.prevParentHash =
                              IF ~failed /\ hash = backfill.prevParentHash
                              THEN hash ELSE @]
    /\ BackfillFrame

\* "errorChan <- err" completes when the buffer has room; wg.Done follows
WorkerSendError ==
    /\ backfill.phase # "idle"
    /\ Len(backfill.errorChan) < errorChanCapacity
    /\ \E i \in 1..Len(backfill.workers) :
        /\ backfill.workers[i].at = "sendError"
        /\ backfill' = [backfill EXCEPT
                          !.workers[i].at = "done",
                          !.errorChan = Append(@, backfill.workers[i].slot)]
    /\ BackfillFrame

\* "payloadsChan <- *&payload" completes when the buffer has room
WorkerSendPayload ==
    /\ backfill.phase # "idle"
    /\ Len(backfill.payloadsChan) < PayloadsCapacity
    /\ \E i \in 1..Len(backfill.workers) :
        /\ backfill.workers[i].at = "sendPayload"
        /\ backfill' = [backfill EXCEPT
                          !.workers[i].at = "done",
                          !.payloadsChan = Append(@, backfill.workers[i].slot)]
    /\ BackfillFrame

\* the closing goroutine: wg.Wait() returned, close(payloadsChan)
ClosePayloadsChan ==
    /\ backfill.phase \in {"collect", "returned"}
    /\ backfill.result.via # "endBlock"
    /\ ~backfill.payloadsClosed
    /\ WorkersDone
    /\ backfill' = [backfill EXCEPT !.payloadsClosed = TRUE]
    /\ BackfillFrame

\* the closing goroutine: close(errorChan)
CloseErrorChan ==
    /\ backfill.payloadsClosed
    /\ ~backfill.errorClosed
    /\ backfill' = [backfill EXCEPT !.errorClosed = TRUE]
    /\ BackfillFrame

\* select took "case payload, ok := <-payloadsChan" with a buffered payload
CollectPayload ==
    /\ backfill.phase = "collect"
    /\ backfill.payloadsChan # <<>>
    /\ backfill' = [backfill EXCEPT
                      !.payloads = Append(@, Head(backfill.payloadsChan)),
                      !.payloadsChan = Tail(@)]
    /\ BackfillFrame

\* select took the payload case on the closed and drained channel: !ok
CollectClosed ==
    /\ backfill.phase = "collect"
    /\ backfill.payloadsClosed
    /\ backfill.payloadsChan = <<>>
    /\ backfill' = [backfill EXCEPT
                      !.phase = "returned",
                      !.result = [returned |-> TRUE, via |-> "payloadsChan",
                                  payloads |-> backfill.payloads, err |-> "nil"]]
    /\ BackfillFrame

\* select took "case err := <-errorChan": a buffered error, or the zero
\* value of the closed and drained channel
CollectError ==
    /\ backfill.phase = "collect"
    /\ backfill.errorChan # <<>> \/ backfill.errorClosed
    /\ backfill' = [backfill EXCEPT
                      !.phase = "returned",
                      !.errorChan = IF @ # <<>> THEN Tail(@) ELSE @,
                      !.result = [returned |-> TRUE, via |-> "errorChan",
                                  payloads |-> <<>>,
                                  err |-> IF backfill.errorChan # <<>>
                                          THEN "rpc" ELSE "nil"]]
    /\ BackfillFrame

NextBackfill ==
    \/ CallGetPayloads
    \/ StartWorker
    \/ LoopExit
    \/ WorkerFetch
    \/ WorkerSendError
    \/ WorkerSendPayload
    \/ ClosePayloadsChan
    \/ CloseErrorChan
    \/ CollectPayload
    \/ CollectClosed
    \/ CollectError

SpecBackfill == InitBackfill /\ [][NextBackfill]_vars

(***************************************************************************)
(* Properties.  In Spec, upd, kind, err, applied and pre describe the last *)
(* update a step handled; in SpecVerify, upd, kind and err describe the    *)
(* one verifier call made.                                                 *)
(***************************************************************************)

\* C1, as it holds: in every state OptimisticHeader.Slot >= FinalizedHeader.Slot;
\* and when an applied update sets a new finalized header whose slot exceeds
\* the optimistic slot the Store held before, the finalized header is the
\* update's and the optimistic header becomes the update's attested header.
C1_OptimisticNotBehindFinalized ==
    /\ Store.OptimisticHeader.Slot >= Store.FinalizedHeader.Slot
    /\ (/\ applied
        /\ Store.FinalizedHeader # pre.Store.FinalizedHeader
        /\ Store.FinalizedHeader.Slot > pre.Store.OptimisticHeader.Slot)
       => /\ Store.FinalizedHeader = upd.FinalizedHeader
          /\ Store.OptimisticHeader = upd.AttestedHeader

\* C1, as stated: when an applied update sets a new finalized header whose
\* slot exceeds the optimistic slot, the optimistic header becomes that
\* finalized header.
C1_OptimisticBecomesFinalized ==
    (/\ applied
     /\ Store.FinalizedHeader # pre.Store.FinalizedHeader
     /\ Store.FinalizedHeader.Slot > pre.Store.OptimisticHeader.Slot)
    => Store.OptimisticHeader = Store.FinalizedHeader

\* C1, its case: an applied update finalized a header past the optimistic one
C1_FinalizedOvertakes ==
    /\ applied
    /\ Store.FinalizedHeader # pre.Store.FinalizedHeader
    /\ Store.FinalizedHeader.Slot > pre.Store.OptimisticHeader.Slot

\* C2: once bootstrap(checkpoint) has written the Store, the bootstrap passed
\* both tests of verify_bootstrap: its committee verified at (5, 22) and the
\* root of its header, now the finalized header, is the checkpoint.
C2_BootstrapVerifiedBeforeWrite ==
    boot.applied =>
        /\ boot.log = "ok"
        /\ HeaderTreeHashRoot(Store.FinalizedHeader) = boot.checkpoint

C4_RotationKeepsChain ==
    (/\ applied
     /\ Store.FinalizedHeader.Slot \div 8192 = pre.Store.FinalizedHeader.Slot \div 8192 + 1)
    => /\ ~pre.Store.NextSyncCommitee.nil
       /\ Store.CurrentSyncCommitee = pre.Store.NextSyncCommitee.val

\* C4, its case: an applied update moved the finalized header one period on
C4_FinalizedNextPeriod ==
    /\ applied
    /\ Store.FinalizedHeader.Slot \div 8192 = pre.Store.FinalizedHeader.Slot \div 8192 + 1

\* C5: in sync and in advance an update is applied only if its verification
\* returned nil, and when verification fails the Store and lastCheckpoint are
\* what they were before the update was processed.
C5_ApplyOnlyAfterVerify ==
    /\ applied => /\ err = "nil"
                  /\ verify_generic_update(upd, now, pre.Store) = "nil"
    /\ err \notin {"nil", "none", "rpc"} =>
           /\ ~applied
           /\ Store = pre.Store
           /\ lastCheckpoint = pre.lastCheckpoint

\* C5, its case: the verification of an update failed on an initialized Store
C5_RejectedOnInitializedStore ==
    /\ err \notin {"nil", "none", "rpc"}
    /\ pre.Store # EmptyStore
    /\ pre.Store.FinalizedHeader.Slot > 0

\* C6: when bootstrap(checkpoint) did not write the Store, sync issues no
\* update request and returns.
C6_NoFetchWithoutBootstrap ==
    (boot.called /\ ~boot.applied) => (fetches = 0 /\ pc = "returned")

\* C7: verify_optimistic_update never answers InvalidFinalityProof, an
\* optimistic update carrying no finality material.
C7_OptimisticNeverFinalityProofError ==
    (pc = "verified" /\ kind = "optimistic") => err # "ErrInvalidFinalityProof"

\* C8: verify_finality_update never answers InvalidNextSyncCommitteeProof, a
\* finality update carrying no next-committee material.
C8_FinalityNeverNextCommitteeProofError ==
    (pc = "verified" /\ kind = "finality") => err # "ErrInvalidNextSyncCommitteeProof"

\* C9: for an update with at least one set bit the verifier answers
\* InvalidTimestamp exactly when
\* expected_current_slot >= signature_slot > attested slot >= finalized slot
\* fails, the last comparison left out for an update without finalized
\* header; a signature slot equal to the attested slot is rejected so.
C9_InvalidTimestampExactly ==
    (pc = "verified" /\ getBits(upd.SyncAggregate.Sync_committee_bits) > 0) =>
        /\ err = "ErrInvalidTimestamp" <=>
               ~(/\ now >= upd.SignatureSlot
                 /\ upd.SignatureSlot > upd.AttestedHeader.Slot
                 /\ (kind = "optimistic"
                     \/ upd.AttestedHeader.Slot >= upd.FinalizedHeader.Slot))
        /\ upd.SignatureSlot = upd.AttestedHeader.Slot => err = "ErrInvalidTimestamp"

\* C9, its case: a signed update whose signature slot is its attested slot
C9_SignatureAtAttestedSlot ==
    /\ pc = "verified"
    /\ getBits(upd.SyncAggregate.Sync_committee_bits) > 0
    /\ now >= upd.SignatureSlot
    /\ upd.SignatureSlot = upd.AttestedHeader.Slot
    /\ upd.AttestedHeader.Slot >= upd.FinalizedHeader.Slot
    /\ err = "ErrInvalidTimestamp"

\* C10: for an update passing the participation and time clauses the verifier
\* answers InvalidPeriod exactly when the period of the signature slot is not
\* the Store's (no next committee) or neither the Store's nor the one after
\* (next committee known), a period being slot / 8192; a signature two
\* periods after the Store is always rejected so.
C10_InvalidPeriodExactly ==
    (/\ pc = "verified"
     /\ getBits(upd.SyncAggregate.Sync_committee_bits) > 0
     /\ now >= upd.SignatureSlot
     /\ upd.SignatureSlot > upd.AttestedHeader.Slot
     /\ upd.AttestedHeader.Slot >= upd.FinalizedHeader.Slot) =>
        /\ err = "ErrInvalidPeriod" <=>
               IF Store.NextSyncCommitee.nil
               THEN upd.SignatureSlot \div 8192 # Store.FinalizedHeader.Slot \div 8192
               ELSE upd.SignatureSlot \div 8192 \notin
                        {Store.FinalizedHeader.Slot \div 8192,
                         Store.FinalizedHeader.Slot \div 8192 + 1}
        /\ upd.SignatureSlot \div 8192 = Store.FinalizedHeader.Slot \div 8192 + 2
               => err = "ErrInvalidPeriod"

\* C10, its case: a well-timed update signed two periods after a Store that
\* knows its next committee
C10_SignatureTwoPeriodsAhead ==
    /\ pc = "verified"
    /\ getBits(upd.SyncAggregate.Sync_committee_bits) > 0
    /\ now >= upd.SignatureSlot
    /\ upd.SignatureSlot > upd.AttestedHeader.Slot
    /\ upd.AttestedHeader.Slot >= upd.FinalizedHeader.Slot
    /\ ~Store.NextSyncCommitee.nil
    /\ upd.SignatureSlot \div 8192 = Store.FinalizedHeader.Slot \div 8192 + 2
    /\ err = "ErrInvalidPeriod"

\* C11: an update whose attested slot is at or below the Store's finalized
\* slot and that carries no next committee (a finality or an optimistic
\* update) is answered NotRelevant, once it passed the participation, time
\* and period clauses.
C11_StaleWithoutCommitteeNotRelevant ==
    (/\ pc = "verified"
     /\ kind \in {"finality", "optimistic"}
     /\ getBits(upd.SyncAggregate.Sync_committee_bits) > 0
     /\ validTime(upd, now)
     /\ validPeriod(upd, Store)
     /\ upd.AttestedHeader.Slot <= Store.FinalizedHeader.Slot)
    => err = "ErrNotRelevant"

\* C12, as stated: when apply_generic_update rotates the committees, the
\* current committee is the old next one, the next committee is the update's,
\* CurrentMaxActiveParticipants is 0 and PreviousMaxActiveParticipants is the
\* Store's CurrentMaxActiveParticipants of immediately before the update.
C12_RotationCarriesPriorMaximum ==
    (/\ applied
     /\ ~pre.Store.NextSyncCommitee.nil
     /\ getBits(upd.SyncAggregate.Sync_committee_bits) * 3 >= 512 * 2
     /\ upd.FinalizedHeader.Slot \div 8192 = pre.Store.FinalizedHeader.Slot \div 8192 + 1)
    => /\ Store.CurrentSyncCommitee = pre.Store.NextSyncCommitee.val
       /\ Store.NextSyncCommitee = upd.NextSyncCommittee
       /\ Store.PreviousMaxActiveParticipants = pre.Store.CurrentMaxActiveParticipants
       /\ Store.CurrentMaxActiveParticipants = 0

\* C12, as it holds: the same, but PreviousMaxActiveParticipants is the larger
\* of the Store's prior CurrentMaxActiveParticipants and the update's bit
\* count, the maximum being raised before the rotation.
C12_RotationCarriesRaisedMaximum ==
    (/\ applied
     /\ ~pre.Store.NextSyncCommitee.nil
     /\ getBits(upd.SyncAggregate.Sync_committee_bits) * 3 >= 512 * 2
     /\ upd.FinalizedHeader.Slot \div 8192 = pre.Store.FinalizedHeader.Slot \div 8192 + 1)
    => /\ Store.CurrentSyncCommitee = pre.Store.NextSyncCommitee.val
       /\ Store.NextSyncCommitee = upd.NextSyncCommittee
       /\ Store.PreviousMaxActiveParticipants =
              Max(pre.Store.CurrentMaxActiveParticipants,
                  getBits(upd.SyncAggregate.Sync_committee_bits))
       /\ Store.CurrentMaxActiveParticipants = 0

\* C12, its case: a rotation by an update with more bits than the Store's
\* maximum so far
C12_RotationWithMoreBits ==
    /\ applied
    /\ ~pre.Store.NextSyncCommitee.nil
    /\ upd.FinalizedHeader.Slot \div 8192 = pre.Store.FinalizedHeader.Slot \div 8192 + 1
    /\ getBits(upd.SyncAggregate.Sync_committee_bits) > pre.Store.CurrentMaxActiveParticipants
    /\ Store.CurrentSyncCommitee = pre.Store.NextSyncCommitee.val
    /\ Store.CurrentMaxActiveParticipants = 0

\* C13: an applied update with b set bits, b * 3 < 1024, leaves the finalized
\* header, both committees, PreviousMaxActiveParticipants and lastCheckpoint
\* unchanged; only CurrentMaxActiveParticipants and the optimistic header may
\* change.
C13_BelowMajorityFrame ==
    (applied /\ getBits(upd.SyncAggregate.Sync_committee_bits) * 3 < 1024)
    => /\ Store.FinalizedHeader = pre.Store.FinalizedHeader
       /\ Store.CurrentSyncCommitee = pre.Store.CurrentSyncCommitee
       /\ Store.NextSyncCommitee = pre.Store.NextSyncCommitee
       /\ Store.PreviousMaxActiveParticipants = pre.Store.PreviousMaxActiveParticipants
       /\ lastCheckpoint = pre.lastCheckpoint

\* C13, its case: an applied update of 341 bits that would have finalized a
\* newer header moved the optimistic header only
C13_BelowMajorityMovesOptimistic ==
    /\ applied
    /\ getBits(upd.SyncAggregate.Sync_committee_bits) = 341
    /\ upd.FinalizedHeader.Slot > pre.Store.FinalizedHeader.Slot
    /\ Store.OptimisticHeader # pre.Store.OptimisticHeader
    /\ Store.FinalizedHeader = pre.Store.FinalizedHeader

\* C14: an applied update changes lastCheckpoint exactly when it advances the
\* finalized header to a header whose slot is a multiple of 32, and then to
\* the tree-hash root of that header; otherwise lastCheckpoint keeps its value.
C14_CheckpointOnEpochBoundary ==
    applied =>
        IF /\ Store.FinalizedHeader.Slot > pre.Store.FinalizedHeader.Slot
           /\ Store.FinalizedHeader.Slot % 32 = 0
        THEN lastCheckpoint = Ptr(HeaderTreeHashRoot(Store.FinalizedHeader))
        ELSE lastCheckpoint = pre.lastCheckpoint

\* C14, its case: the finalized header advanced to a slot that is a multiple
\* of 32 and its root became lastCheckpoint
C14_CheckpointEmitted ==
    /\ applied
    /\ Store.FinalizedHeader.Slot > pre.Store.FinalizedHeader.Slot
    /\ Store.FinalizedHeader.Slot % 32 = 0
    /\ pre.lastCheckpoint.nil
    /\ lastCheckpoint = Ptr(HeaderTreeHashRoot(Store.FinalizedHeader))

\* C15, as stated: send_blocks starts its senders only when the body of every
\* block it fetched hashes to the Body_root of the Store header of that slot;
\* it answers InvalidHeaderHash only when that comparison fails; and after
\* PayloadNotFound or InvalidHeaderHash nothing is emitted.
C15_EmitsOnlyVerifiedBodies ==
    sent.called =>
        /\ sent.spawned =>
               \A i \in DOMAIN sent.bodyRoots : sent.bodyRoots[i] = sent.headers[i].Body_root
        /\ sent.err = "InvalidHeaderHash" =>
               \E i \in DOMAIN sent.headers : sent.bodyRoots[i] # sent.headers[i].Body_root
        /\ sent.err \in {"PayloadNotFound", "InvalidHeaderHash"} =>
               ~sent.spawned /\ senders = {}

\* the checkpoint sources the goroutine has tried
Tried == {syncs[i] : i \in DOMAIN syncs}

\* C16, as stated: the process exits only after every configured fallback
\* (the chain-wide directory if LoadExternalFallback is set, and the fallback
\* URL if one is configured) has been tried.
C16_ExitOnlyAfterAllFallbacks ==
    driver = "exited" =>
        /\ config.LoadExternalFallback => "directory" \in Tried
        /\ config.Fallback => "url" \in Tried

\* the send_blocks calls whose value for channel ch is emitted and not yet
\* received
Undelivered(ch) ==
    {s.send : s \in {t \in senders : t.channel = ch}}
        \cup (IF ch = "blockSend" THEN {blockSend[i].send : i \in DOMAIN blockSend}
              ELSE {})

C20_DomainIsConcatenation ==
    domainCall.called =>
        domainCall.result = domainCall.domainType \o SubSeq(domainCall.forkDataRoot, 1, 28)

\* C21, as stated: isProofValid answers true exactly when the branch has depth
\* nodes and the root derived from the leaf with one SHA-256 application per
\* level equals the state root of the attested header.
C21_ProofValidIffSingleHashRoot ==
    proofCall.called =>
        (proofCall.result <=>
            /\ Len(proofCall.branch) = proofCall.depth
            /\ singleHashRoot(proofCall.leafRoot, proofCall.branch, proofCall.index, 1)
                   = proofCall.stateRoot)

\* C22: when verify_generic_update gets to the signature check, the update is
\* accepted exactly when it was signed by Store.CurrentSyncCommitee if the
\* period of the signature slot is the Store's, and by Store.NextSyncCommitee
\* otherwise; in the second case the Store has a next committee, so the check
\* never meets a nil committee.
C22_CommitteeChosenByPeriod ==
    (pc = "verified" /\ err \in {"nil", "ErrInvalidSignature", "panic"}) =>
        /\ err # "panic"
        /\ upd.SignatureSlot \div 8192 # Store.FinalizedHeader.Slot \div 8192
               => ~Store.NextSyncCommitee.nil
        /\ err = "nil" <=>
               upd.SyncAggregate.Sync_committee_signature.pks.committee =
                   IF upd.SignatureSlot \div 8192 = Store.FinalizedHeader.Slot \div 8192
                   THEN Store.CurrentSyncCommitee
                   ELSE Store.NextSyncCommitee.val

\* C22, its case: an update signed in the period after the Store's is accepted
\* on the signature of the Store's next committee
C22_AcceptedByNextCommittee ==
    /\ pc = "verified"
    /\ err = "nil"
    /\ upd.SignatureSlot \div 8192 = Store.FinalizedHeader.Slot \div 8192 + 1
    /\ upd.SyncAggregate.Sync_committee_signature.pks.committee = Store.NextSyncCommitee.val

C24_OptimisticByRaisedThreshold ==
    applied =>
        /\ \/ Store.CurrentMaxActiveParticipants =
                  Max(pre.Store.CurrentMaxActiveParticipants,
                      getBits(upd.SyncAggregate.Sync_committee_bits))
           \/ /\ Store.CurrentMaxActiveParticipants = 0
              /\ Store.PreviousMaxActiveParticipants =
                     Max(pre.Store.CurrentMaxActiveParticipants,
                         getBits(upd.SyncAggregate.Sync_committee_bits))
        /\ Store.OptimisticHeader =
               IF /\ getBits(upd.SyncAggregate.Sync_committee_bits) >
                         Max(Max(pre.Store.CurrentMaxActiveParticipants,
                                 getBits(upd.SyncAggregate.Sync_committee_bits)),
                             pre.Store.PreviousMaxActiveParticipants) \div 2
                  /\ upd.AttestedHeader.Slot > pre.Store.OptimisticHeader.Slot
               THEN upd.AttestedHeader
               ELSE pre.Store.OptimisticHeader

\* C24, its case: an update with fewer than 342 bits, more than half of a
\* maximum reached before it, moved the optimistic header and left the
\* finalized header alone
C24_OptimisticAboveHalfOfMaximum ==
    /\ applied
    /\ getBits(upd.SyncAggregate.Sync_committee_bits) < 342
    /\ pre.Store.CurrentMaxActiveParticipants > getBits(upd.SyncAggregate.Sync_committee_bits)
    /\ Store.OptimisticHeader = upd.AttestedHeader
    /\ Store.OptimisticHeader # pre.Store.OptimisticHeader
    /\ Store.FinalizedHeader = pre.Store.FinalizedHeader

C26_FinalizedPeriodStep ==
    pc = "applied" =>
        /\ Store.FinalizedHeader.Slot \div 8192 \in
               {pre.Store.FinalizedHeader.Slot \div 8192,
                pre.Store.FinalizedHeader.Slot \div 8192 + 1}
        /\ Store.FinalizedHeader.Slot \div 8192 =
               pre.Store.FinalizedHeader.Slot \div 8192 + 1
               => ~pre.Store.NextSyncCommitee.nil

\* C26, its case: a verified update, applied, moved the finalized header into
\* the next period
C26_AppliedIntoNextPeriod ==
    /\ pc = "applied"
    /\ err = "nil"
    /\ Store.FinalizedHeader.Slot \div 8192 =
           pre.Store.FinalizedHeader.Slot \div 8192 + 1
    /\ Store.FinalizedHeader = upd.FinalizedHeader

\* C27: from the bootstrap of one sync to the reset of the next, no step
\* lowers FinalizedHeader.Slot, the finalized header changes only to one of a
\* strictly larger slot, and no step lowers OptimisticHeader.Slot.
C27_SlotsNeverDecrease ==
    [][~(boot'.called /\ ~boot.called) =>
           /\ Store'.FinalizedHeader.Slot >= Store.FinalizedHeader.Slot
           /\ Store'.FinalizedHeader # Store.FinalizedHeader
                  => Store'.FinalizedHeader.Slot > Store.FinalizedHeader.Slot
           /\ Store'.OptimisticHeader.Slot >= Store.OptimisticHeader.Slot]_vars

\* C27, its case: after the bootstrap an applied update moved the finalized
\* header and the optimistic header to later slots
C27_HeadersMovedForward ==
    /\ applied
    /\ ~boot.called
    /\ pre.Store.FinalizedHeader # ZeroHeader
    /\ Store.FinalizedHeader.Slot > pre.Store.FinalizedHeader.Slot
    /\ Store.OptimisticHeader.Slot > pre.Store.OptimisticHeader.Slot

\* C28: once the select loop of get_payloads has returned: if a per-slot
\* fetch failed the error returned is not nil; if none failed the result came
\* from the drained payload channel, with a nil error and every payload a
\* goroutine sent; and no goroutine waits to send on the full error channel,
\* which nobody reads any more.
C28_ErrorsReturnedPayloadsKept ==
    (backfill.result.returned /\ backfill.result.via # "endBlock") =>
        /\ (\E i \in 1..Len(backfill.workers) : backfill.workers[i].failed)
               => backfill.result.err # "nil"
        /\ (\A i \in 1..Len(backfill.workers) : ~backfill.workers[i].failed)
               => /\ backfill.result.via = "payloadsChan"
                  /\ backfill.result.err = "nil"
                  /\ backfill.payloadsChan = <<>>
                  /\ Len(backfill.result.payloads) =
                         Cardinality({i \in 1..Len(backfill.workers) :
                                         /\ backfill.workers[i].at = "done"
                                         /\ backfill.workers[i].Parent_hash
                                                = backfill.prevParentHash})
        /\ ~\E i \in 1..Len(backfill.workers) :
               /\ backfill.workers[i].at = "sendError"
               /\ Len(backfill.errorChan) = errorChanCapacity

\* C29: for startSlot <= endSlot the loop of get_payloads starts at most
\* endSlot - startSlot + 1 goroutines, exactly that many once it has ended,
\* and each for a slot of startSlot..endSlot: the counter does not pass
\* below startSlot.
C29_LoopStartsOneWorkerPerSlot ==
    backfill.phase \in {"loop", "collect"} =>
        /\ Len(backfill.workers) <= backfill.endSlot - backfill.startSlot + 1
        /\ backfill.phase = "collect"
               => Len(backfill.workers) = backfill.endSlot - backfill.startSlot + 1
        /\ \A i \in 1..Len(backfill.workers) :
               backfill.workers[i].slot \in backfill.startSlot..backfill.endSlot

====
